---- MODULE Spec2Model ----
(***************************************************************************)
(* Model of the meteorological analysis pipeline of PAG2_Projekt2.         *)
(*                                                                         *)
(* Two implementations of the pipeline live side by side in the sources:  *)
(* app.py  (compute_day_night, compute_daily_stats, aggregate_by_admin,    *)
(*          run_analysis) and                                              *)
(* app1.py (add_day_night_astral, compute_stats, aggregate_by_admin,       *)
(*          compute_changes, run).                                         *)
(* The variable impl says which of the two a behaviour follows.            *)
(*                                                                         *)
(* Station codes (KodSH) and dates are small naturals so that the sorted   *)
(* iteration order of pandas' groupby can be followed; a timestamp is a    *)
(* pair (date, hour).  The astronomical library is a fixed table.          *)
(***************************************************************************)
EXTENDS Integers, Sequences, FiniteSets, TLC

VARIABLES
  impl,      \* "app" (app.py) or "app1" (app1.py)
  eff,       \* station reference: sequence of [id, geom] rows (effacility)
  cstatus,   \* classify call: "start", "loop", "done", "raised", "idle"
  cache,     \* daynight_cache (app.py) / cache (app1.py) of the running call
  sunCalls,  \* number of sun() invocations of the running call, per key
  last,      \* the rows classified by the latest loop step, with their labels
  exc,       \* the exception that ended the call, or NoExc
  ci,        \* run loop: index of the parameter code being processed
  stage,     \* run loop: the stage the current code's pipeline is at
  obs,       \* run loop: the observations read for the current code
  sunRun,    \* sun() invocations of the whole run, per key
  nClassify, \* classify calls started in the run
  written,   \* output files written so far: <<code, kind>>
  stats,     \* aggregation: the station statistics passed in
  admin,     \* aggregation: the administrative layer, [id, geometry] rows
  agg,       \* aggregation: [done, rows]: the relation returned, once done
  series,    \* trimmed mean: the values of one group, in input order
  tm,        \* trimmed mean: [done, value, mean]: the results, once done
  files,     \* loader: the rows of the csv files, one sequence per file
  changes,   \* change series: [done, rows]: the relation returned, once done
  workers,   \* concurrent classify calls: one record per call
  frames,    \* data frames alive in a run: the column types of each object
  redis,     \* Redis content: key -> value
  gui,       \* GUI: request threads, scheduled callbacks, what is displayed
  db,        \* db_connection module state: mongo_db, redis_client
  imp        \* Redis import: the pipeline batch and the counters

clsVars == <<impl, eff, cstatus, cache, sunCalls, last, exc>>
runVars == <<ci, stage, obs, sunRun, nClassify, written>>

aggVars == <<stats, admin, agg>>

extVars == <<frames, redis, gui, db, imp>>

restVars == <<series, tm, files, changes, workers, extVars>>

vars == <<clsVars, runVars, aggVars, restVars>>

----------------------------------------------------------------------------
(* Input universes *)

Impls    == {"app", "app1"}
Stations == {1, 2}            \* KodSH values occurring in observations
Dates    == {1, 2}            \* calendar dates (day numbers)
Hours    == {6, 19}           \* hour of day of an observation timestamp
NoGeom   == "none"            \* missing geometry (None)
Geoms    == {NoGeom, "L1", "L2", "LPolar"}

MaxEff   == 2                 \* rows of the station reference
MaxGroup == 2                 \* observations of one (station, date) group

EffRows  == [id : Stations, geom : Geoms]

RECURSIVE SeqsUpTo(_, _)
SeqsUpTo(S, n) ==
  IF n = 0 THEN {<<>>}
  ELSE LET shorter == SeqsUpTo(S, n - 1)
       IN  shorter \cup {Append(s, x) : s \in {t \in shorter : Len(t) = n - 1}, x \in S}

Keys == Stations \X Dates

\* lexicographic order of groupby(['KodSH','date']) keys
KeyLess(k1, k2) == k1[1] < k2[1] \/ (k1[1] = k2[1] /\ k1[2] < k2[2])

----------------------------------------------------------------------------
(* The astronomical library: astral.sun.sun *)

\* sun() raises ValueError where the sun does not rise or set on the date
\* (polar location), and for a NaN latitude (app.py builds lat/lon from a
\* missing geometry as NaN).
SunRaises(geom, d) == geom \in {"LPolar", NoGeom}

\* sunrise and sunset hour (UTC) of a location on a date
SunUTC(geom, d) ==
  CASE geom = "L1" /\ d = 1 -> <<6, 18>>
    [] geom = "L1" /\ d = 2 -> <<5, 19>>
    [] geom = "L2" /\ d = 1 -> <<5, 17>>
    [] geom = "L2" /\ d = 2 -> <<7, 17>>

\* offset of Europe/Warsaw to UTC on the modelled (winter) dates
WarsawUtcOffset == 1

\* sun(observer, date=d, tzinfo=tz): the same instants on the Warsaw clock
SunWarsaw(geom, d) ==
  <<SunUTC(geom, d)[1] + WarsawUtcOffset, SunUTC(geom, d)[2] + WarsawUtcOffset>>

NoWindow == <<>>              \* (None, None) of app1.py; no window in app.py

----------------------------------------------------------------------------
(* Station reference lookups *)

EffIds(e) == {e[i].id : i \in 1..Len(e)}

\* geometries of the reference rows with this id, in reference order
RECURSIVE GeomsOf(_, _)
GeomsOf(e, kod) ==
  IF e = <<>> THEN <<>>
  ELSE IF Head(e).id = kod THEN <<Head(e).geom>> \o GeomsOf(Tail(e), kod)
       ELSE GeomsOf(Tail(e), kod)

\* app.py: eff.set_index(code_field)[['lat','lon']].to_dict('index') raises
\* ValueError when the index is not unique
LocMapRaises(e) == \E i, j \in 1..Len(e) : i # j /\ e[i].id = e[j].id

\* app.py: loc_map, code -> location
loc_map(e) == [kod \in EffIds(e) |-> GeomsOf(e, kod)[1]]

----------------------------------------------------------------------------
(* Day/night classification, app1.py: add_day_night_astral *)

Absent == "absent"            \* marks a row whose station id is not in eff

\* get_sun without the cache lookup: the window is computed on every call
get_sun_nolookup(c, kod, geom, d) ==
  LET key == <<kod, d>> IN
  IF geom = NoGeom
    THEN [cache |-> (key :> NoWindow) @@ c, window |-> NoWindow,
          called |-> FALSE, raised |-> FALSE, hit |-> FALSE]
  ELSE IF SunRaises(geom, d)
    THEN [cache |-> c, window |-> NoWindow, called |-> TRUE, raised |-> TRUE, hit |-> FALSE]
  ELSE [cache |-> (key :> SunWarsaw(geom, d)) @@ c, window |-> SunWarsaw(geom, d),
        called |-> TRUE, raised |-> FALSE, hit |-> FALSE]

\* get_sun(kod, geom, d) on cache c: the returned window, the cache after
\* the call, whether sun() was invoked and whether it raised
get_sun(c, kod, geom, d) ==
  LET key == <<kod, d>> IN
  IF key \in DOMAIN c
    THEN [cache |-> c, window |-> c[key], called |-> FALSE, raised |-> FALSE, hit |-> TRUE]
  ELSE IF geom = NoGeom
    THEN [cache |-> (key :> NoWindow) @@ c, window |-> NoWindow,
          called |-> FALSE, raised |-> FALSE, hit |-> FALSE]
  ELSE IF SunRaises(geom, d)
    THEN [cache |-> c, window |-> NoWindow, called |-> TRUE, raised |-> TRUE, hit |-> FALSE]
  ELSE [cache |-> (key :> SunWarsaw(geom, d)) @@ c, window |-> SunWarsaw(geom, d),
        called |-> TRUE, raised |-> FALSE, hit |-> FALSE]

\* the loop body with the ends of the window excluded
period_app1_strict(window, hour) ==
  IF window = NoWindow THEN "noc"
  ELSE IF window[1] < hour /\ hour < window[2] THEN "dzien"
  ELSE "noc"

\* the body of the loop over the merged rows: sunrise <= dt <= sunset
period_app1(window, hour) ==
  IF window = NoWindow THEN "noc"
  ELSE IF window[1] <= hour /\ hour <= window[2] THEN "dzien"
  ELSE "noc"

\* df.merge(eff[["KodSH","geometry"]], on="KodSH", how="left"): the
\* geometries joined to one observation row, in reference order; a row
\* without a match keeps a missing geometry
merge_geoms(e, kod) ==
  IF kod \in EffIds(e) THEN GeomsOf(e, kod) ELSE <<NoGeom>>

\* one classifier state: the cache, the sun() invocations per key, the rows
\* emitted by the step, and whether an exception escaped
ClsState(c, n) == [cache |-> c, calls |-> n, rows |-> <<>>, raised |-> FALSE]

\* loop iterations of add_day_night_astral for the merged rows of one
\* observation (kod, d, hour); geoms are the geometries still to process
RECURSIVE rows_app1(_, _, _, _, _, _)
rows_app1(cs, inRef, kod, d, hour, geoms) ==
  IF geoms = <<>> \/ cs.raised THEN cs
  ELSE LET g   == get_sun(cs.cache, kod, Head(geoms), d)
           key == <<kod, d>>
           n   == IF g.called THEN [cs.calls EXCEPT ![key] = @ + 1] ELSE cs.calls
           row == [KodSH |-> kod, date |-> d, hour |-> hour,
                   geom |-> IF inRef THEN Head(geoms) ELSE Absent,
                   window |-> g.window,
                   period |-> period_app1(g.window, hour),
                   hit |-> g.hit, called |-> g.called]
       IN  IF g.raised
             THEN [cs EXCEPT !.calls = n, !.raised = TRUE]
             ELSE rows_app1([cache |-> g.cache, calls |-> n,
                             rows |-> Append(cs.rows, row), raised |-> FALSE],
                            inRef, kod, d, hour, Tail(geoms))

\* all loop iterations caused by one observation row
obs_step_app1(c, n, e, kod, d, hour) ==
  rows_app1(ClsState(c, n), kod \in EffIds(e), kod, d, hour, merge_geoms(e, kod))

----------------------------------------------------------------------------
(* Day/night classification, app.py: compute_day_night *)

\* the lambda applied to a group: sunrise <= dt <= sunset
period_app(window, hour) ==
  IF window[1] <= hour /\ hour <= window[2] THEN "day" ELSE "night"

\* one label for every row of a group
RECURSIVE label_all(_, _, _, _, _, _, _)
label_all(kod, d, geom, hours, val, hit, called) ==
  IF hours = <<>> THEN <<>>
  ELSE <<[KodSH |-> kod, date |-> d, hour |-> Head(hours), geom |-> geom,
          window |-> NoWindow, period |-> val, hit |-> hit, called |-> called]>>
       \o label_all(kod, d, geom, Tail(hours), val, hit, called)

\* the rows of a group labelled against its window
RECURSIVE label_window(_, _, _, _, _)
label_window(kod, d, geom, hours, window) ==
  IF hours = <<>> THEN <<>>
  ELSE <<[KodSH |-> kod, date |-> d, hour |-> Head(hours), geom |-> geom,
          window |-> window, period |-> period_app(window, Head(hours)),
          hit |-> FALSE, called |-> TRUE]>>
       \o label_window(kod, d, geom, Tail(hours), window)

\* one iteration of the loop over df.groupby(['KodSH','date'])
group_step_app(c, n, e, kod, d, hours) ==
  LET key == <<kod, d>> IN
  IF key \in DOMAIN c
    THEN [cache |-> c, calls |-> n, raised |-> FALSE,
          rows |-> label_all(kod, d, IF kod \in EffIds(e) THEN loc_map(e)[kod] ELSE Absent,
                             hours, c[key], TRUE, FALSE)]
  ELSE IF kod \notin EffIds(e)
    THEN [cache |-> (key :> "unknown") @@ c, calls |-> n, raised |-> FALSE,
          rows |-> label_all(kod, d, Absent, hours, "unknown", FALSE, FALSE)]
  ELSE LET loc == loc_map(e)[kod]
           n1  == [n EXCEPT ![key] = @ + 1]
       IN  IF SunRaises(loc, d)
             THEN [cache |-> (key :> "unknown") @@ c, calls |-> n1, raised |-> FALSE,
                   rows |-> label_all(kod, d, loc, hours, "unknown", FALSE, TRUE)]
             ELSE [cache |-> (key :> "None") @@ c, calls |-> n1, raised |-> FALSE,
                   rows |-> label_window(kod, d, loc, hours, SunUTC(loc, d))]

----------------------------------------------------------------------------
(* One classify call, followed loop step by loop step.  The observations  *)
(* are read as the loop reaches them: app1.py iterates the merged rows in  *)
(* input order, app.py iterates the (KodSH, date) groups in key order.     *)

NoExc      == "none"
EmptyCache == <<>>
NoCalls    == [k \in Keys |-> 0]

GroupHours == SeqsUpTo(Hours, MaxGroup) \ {<<>>}

\* the run loop is not part of a single classify call
RunIdle ==
  /\ ci = 0 /\ stage = "idle" /\ obs = <<>>
  /\ sunRun = NoCalls /\ nClassify = 0 /\ written = {}

NoAgg == [done |-> FALSE]

\* no aggregation is part of the behaviour
AggIdle ==
  /\ stats = <<>> /\ admin = <<>> /\ agg = NoAgg

NoTm      == [done |-> FALSE]
NoChanges == [done |-> FALSE]

\* the stores, the GUI and the importer are not part of the behaviour
ExtIdle ==
  /\ frames = <<>> /\ redis = <<>> /\ gui = <<>> /\ db = <<>> /\ imp = <<>>

\* no other component is part of the behaviour
RestIdle ==
  /\ series = <<>> /\ tm = NoTm /\ files = <<>>
  /\ changes = NoChanges /\ workers = <<>>
  /\ ExtIdle

InitClassify ==
  /\ impl \in Impls
  /\ eff \in SeqsUpTo(EffRows, MaxEff)
  /\ cstatus = "start"
  /\ cache = EmptyCache
  /\ sunCalls = NoCalls
  /\ last = <<>>
  /\ exc = NoExc
  /\ RunIdle
  /\ AggIdle
  /\ RestIdle

\* app.py lines 120-136: build loc_map from the station reference
BuildLocMap ==
  /\ impl = "app" /\ cstatus = "start"
  /\ IF LocMapRaises(eff)
       THEN cstatus' = "raised" /\ exc' = "ValueError"
       ELSE cstatus' = "loop" /\ exc' = exc
  /\ UNCHANGED <<impl, eff, cache, sunCalls, last>>
  /\ UNCHANGED <<runVars, aggVars, restVars>>

\* app1.py lines 102-112: merge the reference, create the empty cache
MergeEff ==
  /\ impl = "app1" /\ cstatus = "start"
  /\ cstatus' = "loop"
  /\ UNCHANGED <<impl, eff, cache, sunCalls, last, exc>>
  /\ UNCHANGED <<runVars, aggVars, restVars>>

\* app.py lines 172-204: the next group of the groupby, in key order
ClassifyGroup ==
  /\ impl = "app" /\ cstatus = "loop"
  /\ \E key \in Keys, hours \in GroupHours :
       /\ \A k \in DOMAIN cache : KeyLess(k, key)
       /\ LET r == group_step_app(cache, sunCalls, eff, key[1], key[2], hours)
          IN  /\ cache' = r.cache
              /\ sunCalls' = r.calls
              /\ last' = r.rows
  /\ UNCHANGED <<impl, eff, cstatus, exc>>
  /\ UNCHANGED <<runVars, aggVars, restVars>>

\* app1.py lines 131-139: the merged rows of the next observation
ClassifyRow ==
  /\ impl = "app1" /\ cstatus = "loop"
  /\ \E kod \in Stations, d \in Dates, hour \in Hours :
       LET r == obs_step_app1(cache, sunCalls, eff, kod, d, hour)
       IN  /\ cache' = r.cache
           /\ sunCalls' = r.calls
           /\ last' = r.rows
           /\ IF r.raised
                THEN cstatus' = "raised" /\ exc' = "SunError"
                ELSE cstatus' = cstatus /\ exc' = exc
  /\ UNCHANGED <<impl, eff>>
  /\ UNCHANGED <<runVars, aggVars, restVars>>

\* the loop is exhausted and the classified relation is returned
ReturnClassified ==
  /\ cstatus = "loop"
  /\ cstatus' = "done"
  /\ UNCHANGED <<impl, eff, cache, sunCalls, last, exc>>
  /\ UNCHANGED <<runVars, aggVars, restVars>>

NextClassify ==
  \/ BuildLocMap
  \/ MergeEff
  \/ ClassifyGroup
  \/ ClassifyRow
  \/ ReturnClassified

SpecClassify == InitClassify /\ [][NextClassify]_vars

----------------------------------------------------------------------------
(* Claims about one classify call (SpecClassify) *)

IsDay(p)     == p \in {"day", "dzien"}
IsNight(p)   == p \in {"night", "noc"}
IsUnknown(p) == p = "unknown"

LastRows == {last[i] : i \in 1..Len(last)}

\* the window a computation of the library yields for the row's own
\* location and date: none for a missing location or where sun() raises
FreshWindow(row) ==
  IF row.geom \in {Absent, NoGeom} \/ SunRaises(row.geom, row.date) THEN NoWindow
  ELSE IF impl = "app1" THEN SunWarsaw(row.geom, row.date)
  ELSE SunUTC(row.geom, row.date)

\* C1: an observation whose station is absent from the reference, or has
\* no geometry, is labelled UNKNOWN (never NIGHT, never DAY).
C1_NoLocationIsUnknown ==
  \A row \in LastRows :
    row.geom \in {Absent, NoGeom} => IsUnknown(row.period)

\* C2: a row for which the resolver yields a window (sunrise, sunset) is
\* DAY exactly when sunrise <= timestamp <= sunset, both ends included,
\* and NIGHT otherwise.
C2_DayIffWithinWindow ==
  \A row \in LastRows :
    (row.geom \notin {Absent, NoGeom} /\ row.window # NoWindow) =>
      IF row.window[1] <= row.hour /\ row.hour <= row.window[2]
        THEN IsDay(row.period)
        ELSE IsNight(row.period)

\* a row stamped exactly at sunset is labelled DAY
C2_Witness ==
  \E row \in LastRows :
    row.window # NoWindow /\ row.hour = row.window[2] /\ IsDay(row.period)

\* C3: within one classify call sun() is invoked at most once for each
\* (station, date) pair, however many observations share the pair.
C3_SunOncePerKey ==
  \A k \in Keys : sunCalls[k] <= 1

\* a second observation of a computed pair has been classified
C3_Witness ==
  \E row \in LastRows :
    /\ sunCalls[<<row.KodSH, row.date>>] = 1
    /\ (row.hit \/ Len(last) >= 2)

\* C5: every window the resolver returns, on a cache miss or on a cache
\* hit, equals a fresh computation from the call's own location and date.
C5_WindowFreshForOwnLocation ==
  \A row \in LastRows : row.window = FreshWindow(row)

\* C6: a missing location or a raising solar computation never escapes as
\* an exception; the rows of that (station, date) are labelled UNKNOWN and
\* carry no window.
C6_FailureYieldsUnknown ==
  /\ exc # "SunError"
  /\ \A row \in LastRows :
       (row.geom \in {Absent, NoGeom} \/ SunRaises(row.geom, row.date)) =>
         (IsUnknown(row.period) /\ row.window = NoWindow)

----------------------------------------------------------------------------
(* A whole classify call as a function of its inputs *)

\* add_day_night_astral over the rows of df, in order
RECURSIVE classify_app1(_, _, _)
classify_app1(cs, e, rows) ==
  IF rows = <<>> \/ cs.raised THEN cs
  ELSE LET r == obs_step_app1(cs.cache, cs.calls, e,
                              Head(rows).KodSH, Head(rows).date, Head(rows).hour)
       IN  classify_app1([cache |-> r.cache, calls |-> r.calls,
                          rows |-> cs.rows \o r.rows, raised |-> r.raised],
                         e, Tail(rows))

\* the keys of df.groupby(['KodSH','date']), in iteration order
RECURSIVE SortedKeys(_)
SortedKeys(K) ==
  IF K = {} THEN <<>>
  ELSE LET k == CHOOSE x \in K : \A y \in K \ {x} : KeyLess(x, y)
       IN  <<k>> \o SortedKeys(K \ {k})

\* a missing station code (NaN): groupby leaves such rows out of every group
MissingKod == 0

ObsKeys(rows) ==
  {<<rows[i].KodSH, rows[i].date>> :
     i \in {j \in 1..Len(rows) : rows[j].KodSH # MissingKod}}

\* the hours of the rows of one group, in input order
RECURSIVE HoursOf(_, _)
HoursOf(rows, key) ==
  IF rows = <<>> THEN <<>>
  ELSE IF <<Head(rows).KodSH, Head(rows).date>> = key
         THEN <<Head(rows).hour>> \o HoursOf(Tail(rows), key)
         ELSE HoursOf(Tail(rows), key)

\* the loop of compute_day_night over the groups
RECURSIVE groups_app(_, _, _, _)
groups_app(cs, e, rows, keys) ==
  IF keys = <<>> THEN cs
  ELSE LET key == Head(keys)
           r   == group_step_app(cs.cache, cs.calls, e, key[1], key[2], HoursOf(rows, key))
       IN  groups_app([cache |-> r.cache, calls |-> r.calls,
                       rows |-> cs.rows \o r.rows, raised |-> FALSE],
                      e, rows, Tail(keys))

\* df_out = pd.concat(results) if results else df: without a group the
\* copy of the input is returned as it is, with no daynight column
NoLabel == "no column"

\* the rows of df as they came in: no station looked up, no label
unlabelled_rows(rows) ==
  [k \in 1..Len(rows) |->
     [KodSH |-> rows[k].KodSH, date |-> rows[k].date, hour |-> rows[k].hour,
      geom |-> Absent, window |-> NoWindow, period |-> NoLabel,
      hit |-> FALSE, called |-> FALSE]]

\* compute_day_night(df_obs, effacility_gdf)
classify_app(e, rows) ==
  IF LocMapRaises(e)
    THEN [ClsState(EmptyCache, NoCalls) EXCEPT !.raised = TRUE]
  ELSE IF ObsKeys(rows) = {}
    THEN [ClsState(EmptyCache, NoCalls) EXCEPT !.rows = unlabelled_rows(rows)]
  ELSE groups_app(ClsState(EmptyCache, NoCalls), e, rows, SortedKeys(ObsKeys(rows)))

\* the classify stage of either implementation; the cache is created by
\* the call
classify(i, e, rows) ==
  IF i = "app" THEN classify_app(e, rows)
  ELSE classify_app1(ClsState(EmptyCache, NoCalls), e, rows)

----------------------------------------------------------------------------
(* The loop over the parameter codes: app.py run_analysis, app1.py run *)

\* the first keys of PARAMETERS, in dictionary order
ParameterCodes == <<"B00300S", "B00305A">>

MaxRunEff == 1                \* rows of the station reference of a run
MaxRunObs == 2                \* rows of the files read for one code

\* a row of the files of one code: station, date, hour and whether the
\* value string parses as a float
FileRows == [KodSH : Stations, date : {1}, hour : {6}, valueOk : BOOLEAN]

\* app1.py read_parameter_csvs: .astype(float) raises on a bad value
read_raises(i, rows) ==
  i = "app1" /\ \E k \in 1..Len(rows) : ~rows[k].valueOk

\* read_parameter_csvs: the observations kept (app.py drops bad values)
RECURSIVE read_rows(_)
read_rows(rows) ==
  IF rows = <<>> THEN <<>>
  ELSE IF Head(rows).valueOk
         THEN <<[KodSH |-> Head(rows).KodSH, date |-> Head(rows).date,
                 hour |-> Head(rows).hour]>> \o read_rows(Tail(rows))
         ELSE read_rows(Tail(rows))

AddCalls(a, b) == [k \in Keys |-> a[k] + b[k]]

Code == ParameterCodes[ci]

\* the loop variable moves on to the next code
NextCode ==
  /\ ci' = ci + 1
  /\ stage' = "read"

InitRun ==
  /\ impl \in Impls
  /\ eff \in SeqsUpTo(EffRows, MaxRunEff)
  /\ cstatus = "idle"
  /\ cache = EmptyCache
  /\ sunCalls = NoCalls
  /\ last = <<>>
  /\ exc = NoExc
  /\ ci = 1 /\ stage = "read" /\ obs = <<>>
  /\ sunRun = NoCalls /\ nClassify = 0 /\ written = {}
  /\ AggIdle
  /\ RestIdle

\* obs = read_parameter_csvs(...); if obs.empty: continue
ReadObs ==
  /\ stage = "read" /\ ci <= Len(ParameterCodes)
  /\ \E rows \in SeqsUpTo(FileRows, MaxRunObs) :
       IF read_raises(impl, rows)
         THEN /\ stage' = "aborted" /\ exc' = "ValueError"
              /\ UNCHANGED <<ci, obs>>
         ELSE /\ obs' = read_rows(rows)
              /\ exc' = exc
              /\ IF read_rows(rows) = <<>>
                   THEN NextCode
                   ELSE ci' = ci /\ stage' = "classify"
  /\ UNCHANGED <<impl, eff, cstatus, cache, sunCalls, last, sunRun, nClassify, written>>
  /\ UNCHANGED <<aggVars, restVars>>

\* obs_dn = compute_day_night(obs, eff) / obs = add_day_night_astral(obs, eff)
Classify ==
  /\ stage = "classify"
  /\ LET r == classify(impl, eff, obs)
     IN  /\ cache' = r.cache
         /\ sunCalls' = r.calls
         /\ last' = r.rows
         /\ sunRun' = AddCalls(sunRun, r.calls)
         /\ nClassify' = nClassify + 1
         /\ IF r.raised
              THEN /\ stage' = "aborted"
                   /\ exc' = IF impl = "app" THEN "ValueError" ELSE "SunError"
                   /\ cstatus' = "raised"
              ELSE /\ stage' = "stats"
                   /\ exc' = exc
                   /\ cstatus' = "done"
  /\ UNCHANGED <<impl, eff, ci, obs, written>>
  /\ UNCHANGED <<aggVars, restVars>>

\* compute_daily_stats / compute_stats, and the station csv
Stats ==
  /\ stage = "stats"
  /\ written' = written \cup {<<Code, "station">>}
  /\ stage' = "agg_voiv"
  /\ UNCHANGED <<clsVars, ci, obs, sunRun, nClassify>>
  /\ UNCHANGED <<aggVars, restVars>>

\* aggregate_by_admin for the voivodeships, and its csv
AggVoiv ==
  /\ stage = "agg_voiv"
  /\ written' = written \cup {<<Code, "voiv">>}
  /\ stage' = "agg_county"
  /\ UNCHANGED <<clsVars, ci, obs, sunRun, nClassify>>
  /\ UNCHANGED <<aggVars, restVars>>

\* aggregate_by_admin for the counties, and its csv; app.py ends the
\* iteration here
AggCounty ==
  /\ stage = "agg_county"
  /\ written' = written \cup {<<Code, "county">>}
  /\ IF impl = "app" THEN NextCode ELSE ci' = ci /\ stage' = "changes"
  /\ UNCHANGED <<clsVars, obs, sunRun, nClassify>>
  /\ UNCHANGED <<aggVars, restVars>>

\* app1.py: compute_changes for both layers, and their csv files
Changes ==
  /\ stage = "changes"
  /\ written' = written \cup {<<Code, "voiv_changes">>, <<Code, "county_changes">>}
  /\ stage' = "plot"
  /\ UNCHANGED <<clsVars, ci, obs, sunRun, nClassify>>
  /\ UNCHANGED <<aggVars, restVars>>

\* app1.py: plot_changes; changes.dropna().head(1)[admin_id].iloc[0] raises
\* IndexError when no change row is complete (no window has a delta)
Plot ==
  /\ stage = "plot"
  /\ \E complete \in BOOLEAN :
       IF complete
         THEN /\ written' = written \cup {<<Code, "png">>}
              /\ exc' = exc
              /\ NextCode
         ELSE /\ stage' = "aborted" /\ exc' = "IndexError"
              /\ UNCHANGED <<ci, written>>
  /\ UNCHANGED <<impl, eff, cstatus, cache, sunCalls, last, obs, sunRun, nClassify>>
  /\ UNCHANGED <<aggVars, restVars>>

\* the loop is exhausted
Finish ==
  /\ stage = "read" /\ ci > Len(ParameterCodes)
  /\ stage' = "finished"
  /\ UNCHANGED <<clsVars, ci, obs, sunRun, nClassify, written>>
  /\ UNCHANGED <<aggVars, restVars>>

NextRun ==
  \/ ReadObs
  \/ Classify
  \/ Stats
  \/ AggVoiv
  \/ AggCounty
  \/ Changes
  \/ Plot
  \/ Finish

SpecRun == InitRun /\ [][NextRun]_vars

----------------------------------------------------------------------------
(* Claims about a whole run (SpecRun) *)

\* C4 as stated: over a whole run sun() is invoked at most once for each
\* (station, date) key.
C4_SunOncePerKeyPerRun ==
  \A k \in Keys : sunRun[k] <= 1

\* C4 amended: over a whole run sun() is invoked for each (station, date)
\* key at most once per classify call, that is at most once for every
\* parameter code classified so far.
C4_SunOncePerKeyPerCall ==
  \A k \in Keys : sunRun[k] <= nClassify

\* the second parameter's pipeline has computed a key again
C4_Witness ==
  \E k \in Keys : sunRun[k] = 2 /\ nClassify = 2 /\ sunCalls[k] = 1

\* C7: a failing pipeline does not abort its siblings: the run stops on an
\* exception only when no parameter code remains to be processed.
C7_FailureDoesNotAbortSiblings ==
  stage = "aborted" => ci >= Len(ParameterCodes)

----------------------------------------------------------------------------
(* Spatial aggregation: aggregate_by_admin of app.py and app1.py.          *)
(* Statistics values are integers, aggregated means are fractions          *)
(* <<numerator, denominator>> compared by cross multiplication.            *)

AggStations == {1, 2, 3}
Points      == {"L1", "L2"}
AdminIds    == {10, 20}
NaN         == 0             \* the id of a row joined to no polygon

MaxAggEff == 3                \* rows of the station reference
MaxStats  == 3                \* rows of the station statistics

\* the point of each station in the reference
StationPoint(s) == IF s = 3 THEN "L2" ELSE "L1"

\* the period labels of the implementation, day first
PeriodLabels(i) == IF i = "app" THEN <<"day", "night">> ELSE <<"dzien", "noc">>

\* the statistics of a station for a period (1 = day, 2 = night)
StatValue(s, p) ==
  CASE s = 1 /\ p = 1 -> [mean |-> 1, median |-> 0, trimmed_mean |-> 2, count |-> 1]
    [] s = 2 /\ p = 1 -> [mean |-> 4, median |-> 0, trimmed_mean |-> 3, count |-> 2]
    [] s = 3 /\ p = 1 -> [mean |-> 7, median |-> 6, trimmed_mean |-> 5, count |-> 3]
    [] s = 1 /\ p = 2 -> [mean |-> 2, median |-> 2, trimmed_mean |-> 1, count |-> 4]
    [] s = 2 /\ p = 2 -> [mean |-> 5, median |-> 1, trimmed_mean |-> 4, count |-> 1]
    [] s = 3 /\ p = 2 -> [mean |-> 3, median |-> 3, trimmed_mean |-> 6, count |-> 2]

StatKeys == AggStations \X {1, 2}

StatRow(i, k) ==
  [KodSH |-> k[1], date |-> 1, period |-> PeriodLabels(i)[k[2]],
   mean |-> StatValue(k[1], k[2]).mean, median |-> StatValue(k[1], k[2]).median,
   trimmed_mean |-> StatValue(k[1], k[2]).trimmed_mean,
   count |-> StatValue(k[1], k[2]).count]

\* a statistics relation: one row per key, in groupby (sorted) order
RECURSIVE StatRowsOf(_, _)
StatRowsOf(i, K) ==
  IF K = {} THEN <<>>
  ELSE LET k == CHOOSE x \in K : \A y \in K \ {x} : KeyLess(x, y)
       IN  <<StatRow(i, k)>> \o StatRowsOf(i, K \ {k})

StatsRelations(i) ==
  {StatRowsOf(i, K) : K \in {X \in SUBSET StatKeys : Cardinality(X) <= MaxStats}}

RECURSIVE EffOfIds(_)
EffOfIds(ids) ==
  IF ids = <<>> THEN <<>>
  ELSE <<[id |-> Head(ids), geom |-> StationPoint(Head(ids))]>> \o EffOfIds(Tail(ids))

AggEffs == {EffOfIds(ids) : ids \in SeqsUpTo(AggStations, MaxAggEff)}

\* a layer: one polygon per admin id; a polygon is the set of points within it
AdminLayers ==
  {<<[id |-> 10, geometry |-> p10], [id |-> 20, geometry |-> p20]>> :
     p10 \in SUBSET Points, p20 \in SUBSET Points}

(* numeric helpers: pandas mean / median / sum of a column *)

RECURSIVE Sum(_)
Sum(xs) == IF xs = <<>> THEN 0 ELSE Head(xs) + Sum(Tail(xs))

RatEq(a, b) == a[1] * b[2] = b[1] * a[2]

Mean(xs) == <<Sum(xs), Len(xs)>>

RECURSIVE Insert(_, _)
Insert(x, xs) ==
  IF xs = <<>> THEN <<x>>
  ELSE IF x <= Head(xs) THEN <<x>> \o xs
  ELSE <<Head(xs)>> \o Insert(x, Tail(xs))

RECURSIVE Sorted(_)
Sorted(xs) == IF xs = <<>> THEN <<>> ELSE Insert(Head(xs), Sorted(Tail(xs)))

Median(xs) ==
  LET srt == Sorted(xs)
      n   == Len(xs)
  IN  IF n % 2 = 1 THEN <<srt[(n + 1) \div 2], 1>>
      ELSE <<srt[n \div 2] + srt[n \div 2 + 1], 2>>

(* the three steps of aggregate_by_admin *)

\* the merged rows of one statistics row: one per matching reference row
RECURSIVE merge_row(_, _)
merge_row(r, geoms) ==
  IF geoms = <<>> THEN <<>>
  ELSE <<[KodSH |-> r.KodSH, date |-> r.date, period |-> r.period,
          mean |-> r.mean, median |-> r.median, trimmed_mean |-> r.trimmed_mean,
          count |-> r.count, geometry |-> Head(geoms)]>>
       \o merge_row(r, Tail(geoms))

\* stats.merge(eff[[code_field,'geometry']], left_on='KodSH', how='left')
RECURSIVE merged(_, _)
merged(st, e) ==
  IF st = <<>> THEN <<>>
  ELSE merge_row(Head(st), merge_geoms(e, Head(st).KodSH)) \o merged(Tail(st), e)

\* the admin ids of the polygons a geometry lies within, in layer order
RECURSIVE within_ids(_, _)
within_ids(geom, adm) ==
  IF adm = <<>> THEN <<>>
  ELSE IF geom \in Head(adm).geometry
         THEN <<Head(adm).id>> \o within_ids(geom, Tail(adm))
         ELSE within_ids(geom, Tail(adm))

RECURSIVE join_row(_, _)
join_row(r, ids) ==
  IF ids = <<>> THEN <<>>
  ELSE <<[id |-> Head(ids), date |-> r.date, period |-> r.period,
          mean |-> r.mean, median |-> r.median, trimmed_mean |-> r.trimmed_mean,
          count |-> r.count, KodSH |-> r.KodSH]>>
       \o join_row(r, Tail(ids))

\* gpd.sjoin(gdf, admin, predicate='within'); how is 'left' in app.py (rows
\* without a polygon keep a NaN id) and 'inner' in app1.py
RECURSIVE joined(_, _, _)
joined(rows, adm, how) ==
  IF rows = <<>> THEN <<>>
  ELSE LET ids == within_ids(Head(rows).geometry, adm)
       IN  (IF ids = <<>>
              THEN IF how = "left" THEN join_row(Head(rows), <<NaN>>) ELSE <<>>
              ELSE join_row(Head(rows), ids))
           \o joined(Tail(rows), adm, how)

\* the rows of one group, in order
GroupRows(rows, key) ==
  SelectSeq(rows, LAMBDA r : <<r.id, r.date, r.period>> = key)

RECURSIVE Column(_, _)
Column(rows, c) ==
  IF rows = <<>> THEN <<>> ELSE <<Head(rows)[c]>> \o Column(Tail(rows), c)

\* the aggregation of the median column by the mean
grp_median_by_mean(rows) ==
  LET keys == {<<rows[i].id, rows[i].date, rows[i].period>> :
                 i \in {j \in 1..Len(rows) : rows[j].id # NaN}}
  IN  [key \in keys |->
         LET g == GroupRows(rows, key)
         IN  [mean         |-> Mean(Column(g, "mean")),
              median       |-> Mean(Column(g, "median")),
              trimmed_mean |-> Mean(Column(g, "trimmed_mean")),
              count        |-> Sum(Column(g, "count"))]]

\* the aggregation with the rows of a missing admin id kept as a group
grp_keep_nan(rows) ==
  LET keys == {<<rows[i].id, rows[i].date, rows[i].period>> : i \in 1..Len(rows)}
  IN  [key \in keys |->
         LET g == GroupRows(rows, key)
         IN  [mean         |-> Mean(Column(g, "mean")),
              median       |-> Median(Column(g, "median")),
              trimmed_mean |-> Mean(Column(g, "trimmed_mean")),
              count        |-> Sum(Column(g, "count"))]]

\* joined.groupby([admin_id,'date','daynight']).agg({'mean':'mean',
\* 'median':'median','trimmed_mean':'mean','count':'sum'}); groupby drops
\* the rows whose id is NaN
grp(rows) ==
  LET keys == {<<rows[i].id, rows[i].date, rows[i].period>> :
                 i \in {j \in 1..Len(rows) : rows[j].id # NaN}}
  IN  [key \in keys |->
         LET g == GroupRows(rows, key)
         IN  [mean         |-> Mean(Column(g, "mean")),
              median       |-> Median(Column(g, "median")),
              trimmed_mean |-> Mean(Column(g, "trimmed_mean")),
              count        |-> Sum(Column(g, "count"))]]

aggregate_by_admin(i, st, e, adm) ==
  grp(joined(merged(st, e), adm, IF i = "app" THEN "left" ELSE "inner"))

InitAgg ==
  /\ impl \in Impls
  /\ eff \in AggEffs
  /\ stats \in StatsRelations(impl)
  /\ admin \in AdminLayers
  /\ agg = NoAgg
  /\ cstatus = "idle" /\ cache = EmptyCache /\ sunCalls = NoCalls
  /\ last = <<>> /\ exc = NoExc
  /\ RunIdle
  /\ RestIdle

\* one call of aggregate_by_admin, with the csv it writes
Aggregate ==
  /\ agg = NoAgg
  /\ agg' = [done |-> TRUE, rows |-> aggregate_by_admin(impl, stats, eff, admin)]
  /\ written' = written \cup {<<"prefix", "agg">>}
  /\ UNCHANGED <<clsVars, ci, stage, obs, sunRun, nClassify, stats, admin>>
  /\ UNCHANGED restVars

NextAgg ==
  \/ Aggregate

SpecAgg == InitAgg /\ [][NextAgg]_vars

----------------------------------------------------------------------------
(* Claims about the spatial aggregation (SpecAgg) *)

AggKeys == IF agg.done THEN DOMAIN agg.rows ELSE {}

AggRow(key) == agg.rows[key]

\* the polygon of an admin id
PolygonOf(a) == (CHOOSE k \in 1..Len(admin) : admin[k].id = a)

\* the (statistics row, reference row) pairs joined to polygon a for a
\* date and a period
JoinedPairs(a, d, p) ==
  {<<i, j>> \in (1..Len(stats)) \X (1..Len(eff)) :
     /\ stats[i].date = d /\ stats[i].period = p
     /\ eff[j].id = stats[i].KodSH
     /\ eff[j].geom \in admin[PolygonOf(a)].geometry}

\* the statistics rows (one per station) of the stations whose point lies
\* within polygon a, for a date and a period
ContainedRows(a, d, p) ==
  {i \in 1..Len(stats) :
     /\ stats[i].date = d /\ stats[i].period = p
     /\ \E j \in 1..Len(eff) :
          eff[j].id = stats[i].KodSH /\ eff[j].geom \in admin[PolygonOf(a)].geometry}

RECURSIVE PairColumn(_, _)
PairColumn(P, c) ==
  IF P = {} THEN <<>>
  ELSE LET x == CHOOSE y \in P : TRUE
       IN  <<stats[x[1]][c]>> \o PairColumn(P \ {x}, c)

RECURSIVE RowColumn(_, _)
RowColumn(R, c) ==
  IF R = {} THEN <<>>
  ELSE LET x == CHOOSE y \in R : TRUE
       IN  <<stats[x][c]>> \o RowColumn(R \ {x}, c)

\* C8 as stated: the median column of every aggregate row is the
\* arithmetic mean of the medians of the station rows joined to the polygon.
C8_MedianIsMeanOfMedians ==
  \A key \in AggKeys :
    RatEq(AggRow(key).median,
          Mean(PairColumn(JoinedPairs(key[1], key[2], key[3]), "median")))

\* C8 amended: the median column of every aggregate row is the median of
\* the medians of the station rows joined to the polygon.
C8_MedianIsMedianOfMedians ==
  \A key \in AggKeys :
    RatEq(AggRow(key).median,
          Median(PairColumn(JoinedPairs(key[1], key[2], key[3]), "median")))

\* a group of three stations, each joined once, whose median of medians
\* is not the mean of their medians
C8_Witness ==
  \E key \in AggKeys :
    LET P   == JoinedPairs(key[1], key[2], key[3])
        col == PairColumn(P, "median")
    IN  /\ Cardinality(P) = 3
        /\ Cardinality({x[1] : x \in P}) = 3
        /\ ~RatEq(Median(col), Mean(col))
        /\ RatEq(AggRow(key).median, Median(col))

\* C9: the mean column of every aggregate row is the arithmetic mean of the
\* means of the stations contained in the polygon, and the trimmed_mean
\* column the arithmetic mean of their trimmed means.
C9_MeanOfContainedStations ==
  \A key \in AggKeys :
    LET R == ContainedRows(key[1], key[2], key[3])
    IN  /\ RatEq(AggRow(key).mean, Mean(RowColumn(R, "mean")))
        /\ RatEq(AggRow(key).trimmed_mean, Mean(RowColumn(R, "trimmed_mean")))

\* C10: the count column of every aggregate row is the sum of the counts
\* of the stations contained in the polygon, each once, and every polygon
\* with a contained station that has data has its aggregate row.
C10_CountOfContainedStations ==
  agg.done =>
    /\ \A key \in AggKeys :
         AggRow(key).count = Sum(RowColumn(ContainedRows(key[1], key[2], key[3]), "count"))
    /\ \A a \in AdminIds, i \in 1..Len(stats) :
         ContainedRows(a, stats[i].date, stats[i].period) # {}
           => <<a, stats[i].date, stats[i].period>> \in AggKeys

\* the statistics rows that cannot be placed in the layer: the station id
\* is absent from the reference, or the station's point is in no polygon
Unplaced ==
  {i \in 1..Len(stats) :
     \/ stats[i].KodSH \notin EffIds(eff)
     \/ \A j \in 1..Len(eff) :
          eff[j].id = stats[i].KodSH => within_ids(eff[j].geom, admin) = <<>>}

\* C11: a statistics row whose station is absent from the reference, or
\* whose point lies in no polygon of the layer, contributes to no aggregate
\* row and the aggregation still returns; every aggregate row is built from
\* exactly the rows joined to its polygon, and every polygon with a joined
\* row has its aggregate row.
C11_UnplacedRowsAreExcluded ==
  agg.done =>
    /\ \A key \in AggKeys :
         /\ key[1] \in AdminIds
         /\ LET P == JoinedPairs(key[1], key[2], key[3])
            IN  /\ P # {}
                /\ \A x \in P : x[1] \notin Unplaced
                /\ AggRow(key).count = Sum(PairColumn(P, "count"))
                /\ RatEq(AggRow(key).mean, Mean(PairColumn(P, "mean")))
                /\ RatEq(AggRow(key).trimmed_mean, Mean(PairColumn(P, "trimmed_mean")))
    /\ \A a \in AdminIds, i \in 1..Len(stats) :
         JoinedPairs(a, stats[i].date, stats[i].period) # {}
           => <<a, stats[i].date, stats[i].period>> \in AggKeys

\* an aggregation has returned rows although one statistics row had no
\* reference row and another had a point outside every polygon
C11_Witness ==
  /\ agg.done
  /\ AggKeys # {}
  /\ \E i \in Unplaced : stats[i].KodSH \notin EffIds(eff)
  /\ \E i \in Unplaced : stats[i].KodSH \in EffIds(eff)

----------------------------------------------------------------------------
(* Trimmed mean: trimmed_mean of app.py, scipy.stats.trim_mean as called   *)
(* by compute_stats of app1.py.  Values are integers, means are fractions. *)

TRIM_PERCENT == <<1, 10>>     \* 0.1 as numerator and denominator
TRIM_PROP    == <<1, 10>>

TrimValues == {0, 1, 5}       \* observation values of a group
MaxSeries  == 10              \* observations of one group

NaNRat == <<0, 0>>            \* float('nan'): the mean of no value

\* int(n * trim)
cut(n, trim) == (n * trim[1]) \div trim[2]

\* trimmed_mean with one value cut from each end whatever the length
trimmed_mean_cut1(series0, trim) ==
  LET ser == Sorted(series0)
      n   == Len(ser)
      k   == 1
  IN  IF n = 0 THEN NaNRat
      ELSE IF 2 * k >= n THEN Mean(ser)
      ELSE Mean(SubSeq(ser, k + 1, n - k))

\* trimmed_mean with the sum of the kept values divided by the group size
trimmed_mean_divn(series0, trim) ==
  LET ser == Sorted(series0)
      n   == Len(ser)
      k   == cut(n, trim)
  IN  IF n = 0 THEN NaNRat
      ELSE IF 2 * k >= n THEN Mean(ser)
      ELSE <<Sum(SubSeq(ser, k + 1, n - k)), n>>

\* trimmed_mean without the fallback to the plain mean
trimmed_mean_nofallback(series0, trim) ==
  LET ser == Sorted(series0)
      n   == Len(ser)
      k   == cut(n, trim)
  IN  IF n = 0 THEN NaNRat
      ELSE Mean(SubSeq(ser, k + 1, n - k))

\* app.py: trimmed_mean(series, trim=TRIM_PERCENT)
trimmed_mean(series0, trim) ==
  LET ser == Sorted(series0)
      n   == Len(ser)
      k   == cut(n, trim)
  IN  IF n = 0 THEN NaNRat
      ELSE IF 2 * k >= n THEN Mean(ser)
      ELSE Mean(SubSeq(ser, k + 1, n - k))

\* scipy.stats.trim_mean(a, proportiontocut): the mean of the sorted values
\* between lowercut and uppercut; an empty input gives nan
trim_mean(a, proportiontocut) ==
  LET nobs     == Len(a)
      lowercut == cut(nobs, proportiontocut)
      uppercut == nobs - lowercut
  IN  IF nobs = 0 THEN NaNRat
      ELSE Mean(SubSeq(Sorted(a), lowercut + 1, uppercut))

\* the trimmed mean column of either implementation
trimmed(i, xs) ==
  IF i = "app" THEN trimmed_mean(xs, TRIM_PERCENT) ELSE trim_mean(xs, TRIM_PROP)

\* no classify call is part of the behaviour
ClsIdle ==
  /\ eff = <<>> /\ cstatus = "idle" /\ cache = EmptyCache
  /\ sunCalls = NoCalls /\ last = <<>> /\ exc = NoExc

InitTrim ==
  /\ impl \in Impls
  /\ series \in SeqsUpTo(TrimValues, MaxSeries)
  /\ tm = NoTm
  /\ files = <<>> /\ changes = NoChanges /\ workers = <<>>
  /\ ExtIdle
  /\ ClsIdle
  /\ RunIdle
  /\ AggIdle

\* the mean and the trimmed mean of one group of values
TrimGroup ==
  /\ tm = NoTm
  /\ tm' = [done |-> TRUE, value |-> trimmed(impl, series), mean |-> Mean(series)]
  /\ UNCHANGED <<clsVars, runVars, aggVars, series, files, changes, workers, extVars>>

NextTrim ==
  \/ TrimGroup

SpecTrim == InitTrim /\ [][NextTrim]_vars

----------------------------------------------------------------------------
(* Claims about the trimmed mean (SpecTrim) *)

SeriesMin == CHOOSE x \in {series[i] : i \in 1..Len(series)} :
               \A j \in 1..Len(series) : x <= series[j]

SeriesMax == CHOOSE x \in {series[i] : i \in 1..Len(series)} :
               \A j \in 1..Len(series) : x >= series[j]

\* C12: the trimmed mean of a group of values lies between the smallest
\* and the largest value of the group.
C12_TrimmedMeanWithinBounds ==
  (tm.done /\ series # <<>>) =>
    /\ tm.value[2] > 0
    /\ SeriesMin * tm.value[2] <= tm.value[1]
    /\ tm.value[1] <= SeriesMax * tm.value[2]

\* a group large enough to be trimmed, whose trimmed mean is not its mean
C12_Witness ==
  /\ tm.done
  /\ cut(Len(series), TRIM_PERCENT) >= 1
  /\ SeriesMin < SeriesMax
  /\ ~RatEq(tm.value, tm.mean)

\* C13 as stated: for a group of at most 2 / trim_fraction = 20 values the
\* trimmed mean equals the untrimmed mean.
C13_EqualsMeanUpTo20 ==
  (tm.done /\ series # <<>> /\ Len(series) * TRIM_PERCENT[1] <= 2 * TRIM_PERCENT[2]) =>
    RatEq(tm.value, tm.mean)

\* C13 amended: for a group of fewer than 1 / trim_fraction = 10 values
\* (no value is cut) the trimmed mean equals the untrimmed mean.
C13_EqualsMeanBelow10 ==
  (tm.done /\ series # <<>> /\ Len(series) * TRIM_PERCENT[1] < TRIM_PERCENT[2]) =>
    RatEq(tm.value, tm.mean)

\* a group of nine values that are not all equal, with both means equal
C13_Witness ==
  /\ tm.done
  /\ Len(series) = 9
  /\ SeriesMin < SeriesMax
  /\ RatEq(tm.value, tm.mean)

----------------------------------------------------------------------------
(* Station statistics: compute_daily_stats of app.py, compute_stats of     *)
(* app1.py, fed either with a classified relation or with the observations *)
(* of the round-trip scenario, which are classified first.  The mean,      *)
(* median and trimmed mean of a statistics row are fractions.              *)

StatValues == {10, 20}        \* observation values
MaxStatObs == 3               \* rows of the classified relation

\* the labels the classifier of the implementation can emit
Labels(i) == IF i = "app" THEN {"day", "night", "unknown"} ELSE {"dzien", "noc"}

ClassifiedRows(i) ==
  [KodSH : Stations, date : Dates, period : Labels(i), Value : StatValues]

\* the scenario: station 1 (A) observed at 05:00, 12:00 and 19:00, station 2
\* (B) at 12:00, on date 1, every value 10
RoundTripObs ==
  <<[KodSH |-> 1, date |-> 1, hour |-> 5,  Value |-> 10],
    [KodSH |-> 1, date |-> 1, hour |-> 12, Value |-> 10],
    [KodSH |-> 1, date |-> 1, hour |-> 19, Value |-> 10],
    [KodSH |-> 2, date |-> 1, hour |-> 12, Value |-> 10]>>

\* the location whose window on date 1 is 06:00-18:00 on the clock the
\* implementation compares on (UTC in app.py, Europe/Warsaw in app1.py)
RoundTripLoc(i) == IF i = "app" THEN "L1" ELSE "L2"

\* station A located, station B absent from the reference or without geometry
RoundTripEffs(i) ==
  {<<[id |-> 1, geom |-> RoundTripLoc(i)]>>,
   <<[id |-> 1, geom |-> RoundTripLoc(i)], [id |-> 2, geom |-> NoGeom]>>}

\* the classified rows of a step, each with the value of its observation
RECURSIVE attach(_, _)
attach(rows, vals) ==
  IF rows = <<>> THEN <<>>
  ELSE <<[KodSH |-> Head(rows).KodSH, date |-> Head(rows).date,
          period |-> Head(rows).period, Value |-> Head(vals)]>>
       \o attach(Tail(rows), Tail(vals))

\* the values of the rows of one group, in input order
RECURSIVE ValuesOf(_, _)
ValuesOf(rows, key) ==
  IF rows = <<>> THEN <<>>
  ELSE IF <<Head(rows).KodSH, Head(rows).date>> = key
         THEN <<Head(rows).Value>> \o ValuesOf(Tail(rows), key)
         ELSE ValuesOf(Tail(rows), key)

\* add_day_night_astral: the relation returned, Value column included
RECURSIVE classified_app1(_, _, _, _)
classified_app1(c, e, rows, out) ==
  IF rows = <<>> THEN [raised |-> FALSE, rows |-> out]
  ELSE LET o == Head(rows)
           r == obs_step_app1(c, NoCalls, e, o.KodSH, o.date, o.hour)
       IN  IF r.raised THEN [raised |-> TRUE, rows |-> <<>>]
           ELSE classified_app1(r.cache, e, Tail(rows),
                  out \o attach(r.rows, [k \in 1..Len(r.rows) |-> o.Value]))

\* compute_day_night: the concatenation of the labelled groups
RECURSIVE classified_groups(_, _, _, _)
classified_groups(c, e, rows, keys) ==
  IF keys = <<>> THEN <<>>
  ELSE LET key == Head(keys)
           r   == group_step_app(c, NoCalls, e, key[1], key[2], HoursOf(rows, key))
       IN  attach(r.rows, ValuesOf(rows, key))
           \o classified_groups(r.cache, e, rows, Tail(keys))

\* the copy of the input returned when there is no group, Value included
unlabelled(rows) ==
  [k \in 1..Len(rows) |->
     [KodSH |-> rows[k].KodSH, date |-> rows[k].date,
      period |-> NoLabel, Value |-> rows[k].Value]]

classified_app(e, rows) ==
  IF LocMapRaises(e) THEN [raised |-> TRUE, rows |-> <<>>]
  ELSE IF ObsKeys(rows) = {} THEN [raised |-> FALSE, rows |-> unlabelled(rows)]
  ELSE [raised |-> FALSE,
        rows |-> classified_groups(EmptyCache, e, rows, SortedKeys(ObsKeys(rows)))]

classified(i, e, rows) ==
  IF i = "app" THEN classified_app(e, rows)
  ELSE classified_app1(EmptyCache, e, rows, <<>>)

\* the key of groupby(['KodSH','date','daynight']) / (["KodSH","date","period"])
group_key(r) == <<r.KodSH, r.date, r.period>>

\* the place of a label in the sorted order of the label strings
PeriodRank(p) ==
  CASE p \in {"day", "dzien"} -> 1
    [] p \in {"night", "noc"} -> 2
    [] p = "unknown"          -> 3

group_key_less(k1, k2) ==
  \/ KeyLess(<<k1[1], k1[2]>>, <<k2[1], k2[2]>>)
  \/ (k1[1] = k2[1] /\ k1[2] = k2[2] /\ PeriodRank(k1[3]) < PeriodRank(k2[3]))

\* the groups without those of the unknown period
group_keys_known(crows) ==
  {group_key(crows[k]) : k \in {j \in 1..Len(crows) : crows[j].period # "unknown"}}

\* the groups of the groupby: every key that occurs
group_keys(crows) == {group_key(crows[k]) : k \in 1..Len(crows)}

\* the Value column of one group
RECURSIVE group_values(_, _)
group_values(crows, key) ==
  IF crows = <<>> THEN <<>>
  ELSE IF group_key(Head(crows)) = key
         THEN <<Head(crows).Value>> \o group_values(Tail(crows), key)
         ELSE group_values(Tail(crows), key)

\* a statistics row counting the distinct values of the group
stat_row_distinct(i, key, xs) ==
  [KodSH |-> key[1], date |-> key[2], period |-> key[3],
   mean |-> Mean(xs), median |-> Median(xs), trimmed_mean |-> trimmed(i, xs),
   count |-> Cardinality({xs[k] : k \in 1..Len(xs)})]

\* agg mean / median / count, and the trimmed mean merged on the key
stat_row(i, key, xs) ==
  [KodSH |-> key[1], date |-> key[2], period |-> key[3],
   mean |-> Mean(xs), median |-> Median(xs), trimmed_mean |-> trimmed(i, xs),
   count |-> Len(xs)]

RECURSIVE stat_rows(_, _, _)
stat_rows(i, crows, K) ==
  IF K = {} THEN <<>>
  ELSE LET key == CHOOSE x \in K : \A y \in K \ {x} : group_key_less(x, y)
       IN  <<stat_row(i, key, group_values(crows, key))>> \o stat_rows(i, crows, K \ {key})

\* compute_daily_stats(df_obs_with_dn) / compute_stats(df)
compute_stats(i, crows) == stat_rows(i, crows, group_keys(crows))

InitStats ==
  /\ impl \in Impls
  /\ \/ /\ stage = "stats"
        /\ obs = <<>> /\ eff = <<>>
        /\ last \in SeqsUpTo(ClassifiedRows(impl), MaxStatObs) \ {<<>>}
     \/ /\ stage = "classify"
        /\ obs = RoundTripObs /\ eff \in RoundTripEffs(impl)
        /\ last = <<>>
  /\ stats = <<>> /\ admin = <<>> /\ agg = NoAgg
  /\ cstatus = "idle" /\ cache = EmptyCache /\ sunCalls = NoCalls /\ exc = NoExc
  /\ ci = 1 /\ sunRun = NoCalls /\ nClassify = 0 /\ written = {}
  /\ RestIdle

\* the scenario's observations are classified
ClassifyObs ==
  /\ stage = "classify"
  /\ LET r == classified(impl, eff, obs)
     IN  IF r.raised
           THEN stage' = "aborted" /\ last' = last
           ELSE stage' = "stats" /\ last' = r.rows
  /\ UNCHANGED <<impl, eff, cstatus, cache, sunCalls, exc>>
  /\ UNCHANGED <<ci, obs, sunRun, nClassify, written>>
  /\ UNCHANGED <<aggVars, restVars>>

\* stats = compute_daily_stats(obs_dn) / compute_stats(obs)
ComputeStats ==
  /\ stage = "stats"
  /\ stats' = compute_stats(impl, last)
  /\ stage' = "finished"
  /\ UNCHANGED <<clsVars, ci, obs, sunRun, nClassify, written>>
  /\ UNCHANGED <<admin, agg, restVars>>

NextStats ==
  \/ ClassifyObs
  \/ ComputeStats

SpecStats == InitStats /\ [][NextStats]_vars

----------------------------------------------------------------------------
(* Claims about the station statistics (SpecStats) *)

\* the classified observations of one (station, date, period)
RowsOfKey(key) == {k \in 1..Len(last) : group_key(last[k]) = key}

\* the statistics rows of one (station, date, period)
StatsOfKey(key) == {k \in 1..Len(stats) : group_key(stats[k]) = key}

\* C14: the statistics hold exactly one row for every (station, date,
\* period) of the classified observations and no other row, and the count
\* of a row is the number of classified observations of its key, at least 1.
C14_OneRowPerGroup ==
  stage = "finished" =>
    /\ \A k \in 1..Len(last) : Cardinality(StatsOfKey(group_key(last[k]))) = 1
    /\ \A k \in 1..Len(stats) :
         /\ RowsOfKey(group_key(stats[k])) # {}
         /\ stats[k].count = Cardinality(RowsOfKey(group_key(stats[k])))
         /\ stats[k].count >= 1

\* statistics of two groups, one of them with two observations of one value
C14_Witness ==
  /\ stage = "finished"
  /\ Len(stats) = 2
  /\ \E k \in 1..Len(stats) :
       /\ stats[k].count = 2
       /\ \A a, b \in RowsOfKey(group_key(stats[k])) : last[a].Value = last[b].Value

\* C15: every (station, date, UNKNOWN) group of the classified observations
\* has its statistics row, with the count, mean, median and trimmed mean of
\* the group's values.
C15_UnknownGroupsRetained ==
  stage = "finished" =>
    \A k \in 1..Len(last) :
      IsUnknown(last[k].period) =>
        \E j \in 1..Len(stats) :
          LET xs == group_values(last, group_key(last[k]))
          IN  /\ group_key(stats[j]) = group_key(last[k])
              /\ stats[j].count = Len(xs)
              /\ RatEq(stats[j].mean, Mean(xs))
              /\ RatEq(stats[j].median, Median(xs))
              /\ RatEq(stats[j].trimmed_mean, trimmed(impl, xs))

\* statistics with a row of an UNKNOWN group next to a row of a DAY group
C15_Witness ==
  /\ stage = "finished"
  /\ \E j \in 1..Len(stats) : IsUnknown(stats[j].period) /\ stats[j].count = 2
  /\ \E j \in 1..Len(stats) : IsDay(stats[j].period)

\* the statistics row of a key, if there is exactly one
TheStat(key) == stats[CHOOSE k \in 1..Len(stats) : group_key(stats[k]) = key]

\* C16: in the round-trip scenario the observations of A at 05:00, 12:00
\* and 19:00 are labelled NIGHT, DAY, NIGHT (the classified relation keeps
\* them in this order) and that of B UNKNOWN, and the statistics are
\* (A, D, DAY) count 1 mean 10, (A, D, NIGHT) count 2 mean 10 and
\* (B, D, UNKNOWN) count 1.
C16_RoundTrip ==
  (stage = "finished" /\ obs = RoundTripObs) =>
    /\ Len(last) = 4
    /\ last[1].KodSH = 1 /\ IsNight(last[1].period)
    /\ last[2].KodSH = 1 /\ IsDay(last[2].period)
    /\ last[3].KodSH = 1 /\ IsNight(last[3].period)
    /\ last[4].KodSH = 2 /\ IsUnknown(last[4].period)
    /\ Len(stats) = 3
    /\ \E d \in 1..3, n \in 1..3, u \in 1..3 :
         /\ stats[d].KodSH = 1 /\ stats[d].date = 1 /\ IsDay(stats[d].period)
         /\ stats[d].count = 1 /\ RatEq(stats[d].mean, <<10, 1>>)
         /\ stats[n].KodSH = 1 /\ stats[n].date = 1 /\ IsNight(stats[n].period)
         /\ stats[n].count = 2 /\ RatEq(stats[n].mean, <<10, 1>>)
         /\ stats[u].KodSH = 2 /\ stats[u].date = 1 /\ IsUnknown(stats[u].period)
         /\ stats[u].count = 1

----------------------------------------------------------------------------
(* Change series: compute_changes of app1.py.  Dates are day numbers, a    *)
(* missing value (NaN) is the fraction NaNRat.                             *)

CHANGE_FREQ == 7              \* "7D": the width of a window in days

ChangeDates == {1, 3, 5, 8, 16}  \* dates of the aggregate rows
MaxAggRows  == 3              \* rows of the aggregate relation passed in

ChangeKeys == AdminIds \X ChangeDates \X {"dzien", "noc"}

\* the value columns of an aggregate row
AggRowValues ==
  {[mean |-> <<1, 1>>, median |-> <<5, 1>>, trimmed_mean |-> <<1, 1>>, count |-> 1],
   [mean |-> <<4, 1>>, median |-> <<2, 1>>, trimmed_mean |-> <<4, 1>>, count |-> 2]}

IsNaN(r) == r[2] = 0

RatAdd(a, b) == <<a[1] * b[2] + b[1] * a[2], a[2] * b[2]>>

\* a - b in float arithmetic: NaN when either operand is NaN
RatSub(a, b) ==
  IF IsNaN(a) \/ IsNaN(b) THEN NaNRat
  ELSE <<a[1] * b[2] - b[1] * a[2], a[2] * b[2]>>

RECURSIVE RatSum(_)
RatSum(xs) == IF xs = <<>> THEN <<0, 1>> ELSE RatAdd(Head(xs), RatSum(Tail(xs)))

\* the mean of a column of a window; NaN for a window without rows
RatMean(xs) ==
  IF xs = <<>> THEN NaNRat
  ELSE <<RatSum(xs)[1], RatSum(xs)[2] * Len(xs)>>

RatLeq(a, b) == a[1] * b[2] <= b[1] * a[2]

RECURSIVE RatInsert(_, _)
RatInsert(x, xs) ==
  IF xs = <<>> THEN <<x>>
  ELSE IF RatLeq(x, Head(xs)) THEN <<x>> \o xs
  ELSE <<Head(xs)>> \o RatInsert(x, Tail(xs))

RECURSIVE RatSorted(_)
RatSorted(xs) == IF xs = <<>> THEN <<>> ELSE RatInsert(Head(xs), RatSorted(Tail(xs)))

\* the median of a column of a window; NaN for a window without rows
RatMedian(xs) ==
  LET srt == RatSorted(xs)
      n   == Len(xs)
  IN  IF n = 0 THEN NaNRat
      ELSE IF n % 2 = 1 THEN srt[(n + 1) \div 2]
      ELSE RatMean(<<srt[n \div 2], srt[n \div 2 + 1]>>)

\* the partitions of groupby([admin_id, "period"])
partitions(rows) == {<<k[1], k[3]>> : k \in DOMAIN rows}

partition_less(p1, p2) ==
  p1[1] < p2[1] \/ (p1[1] = p2[1] /\ PeriodRank(p1[2]) < PeriodRank(p2[2]))

\* the dates of the rows of a partition
part_dates(rows, part) ==
  {k[2] : k \in {x \in DOMAIN rows : x[1] = part[1] /\ x[3] = part[2]}}

SetMin(S) == CHOOSE x \in S : \A y \in S : x <= y
SetMax(S) == CHOOSE x \in S : \A y \in S : x >= y

\* a column of the rows of a partition dated within [start, start + freq)
RECURSIVE window_column(_, _, _, _, _)
window_column(rows, part, D, start, c) ==
  IF D = {} THEN <<>>
  ELSE LET d == SetMin(D)
       IN  (IF start <= d /\ d < start + CHANGE_FREQ
              THEN <<rows[<<part[1], d, part[2]>>][c]>> ELSE <<>>)
           \o window_column(rows, part, D \ {d}, start, c)

\* resample with the median column aggregated by the mean
resample_median_by_mean(rows, part) ==
  LET D     == part_dates(rows, part)
      first == SetMin(D)
      n     == (SetMax(D) - first) \div CHANGE_FREQ + 1
  IN  [w \in 1..n |->
         LET start == first + (w - 1) * CHANGE_FREQ
         IN  [id |-> part[1], period |-> part[2], date |-> start,
              mean   |-> RatMean(window_column(rows, part, D, start, "mean")),
              median |-> RatMean(window_column(rows, part, D, start, "median"))]]

\* .resample(CHANGE_FREQ).agg(mean=("mean","mean"), median=("median","median"))
\* of one partition: a record for every window from the first date of the
\* partition to its last, empty windows included
resample(rows, part) ==
  LET D     == part_dates(rows, part)
      first == SetMin(D)
      n     == (SetMax(D) - first) \div CHANGE_FREQ + 1
  IN  [w \in 1..n |->
         LET start == first + (w - 1) * CHANGE_FREQ
         IN  [id |-> part[1], period |-> part[2], date |-> start,
              mean   |-> RatMean(window_column(rows, part, D, start, "mean")),
              median |-> RatMedian(window_column(rows, part, D, start, "median"))]]

\* the differences taken the wrong way round
diff_reversed(xs) ==
  [k \in 1..Len(xs) |-> IF k = 1 THEN NaNRat ELSE RatSub(xs[k - 1], xs[k])]

\* Series.diff() of one group: NaN first, then the successive differences
diff(xs) ==
  [k \in 1..Len(xs) |-> IF k = 1 THEN NaNRat ELSE RatSub(xs[k], xs[k - 1])]

\* the records of one partition with their change columns
with_changes(recs) ==
  LET dmean   == diff([k \in 1..Len(recs) |-> recs[k].mean])
      dmedian == diff([k \in 1..Len(recs) |-> recs[k].median])
  IN  [k \in 1..Len(recs) |->
         [id |-> recs[k].id, period |-> recs[k].period, date |-> recs[k].date,
          mean |-> recs[k].mean, median |-> recs[k].median,
          mean_change |-> dmean[k], median_change |-> dmedian[k]]]

\* the resampled records of the partitions, in partition order
RECURSIVE resampled(_, _)
resampled(rows, P) ==
  IF P = {} THEN <<>>
  ELSE LET part == CHOOSE x \in P : \A y \in P \ {x} : partition_less(x, y)
       IN  resample(rows, part) \o resampled(rows, P \ {part})

\* the change columns taken over the whole relation, not per partition
compute_changes_flat(rows) ==
  with_changes(resampled(rows, partitions(rows)))

RECURSIVE changes_of(_, _)
changes_of(rows, P) ==
  IF P = {} THEN <<>>
  ELSE LET part == CHOOSE x \in P : \A y \in P \ {x} : partition_less(x, y)
       IN  with_changes(resample(rows, part)) \o changes_of(rows, P \ {part})

\* compute_changes(df, admin_id): res with mean_change and median_change
compute_changes(rows) ==
  changes_of(rows, partitions(rows))

InitChanges ==
  /\ impl = "app1"
  /\ \E K \in {X \in SUBSET ChangeKeys : Cardinality(X) <= MaxAggRows /\ X # {}} :
       agg \in [done : {TRUE}, rows : [K -> AggRowValues]]
  /\ changes = NoChanges
  /\ stats = <<>> /\ admin = <<>>
  /\ series = <<>> /\ tm = NoTm /\ files = <<>> /\ workers = <<>>
  /\ ExtIdle
  /\ ClsIdle
  /\ RunIdle

\* vc = compute_changes(v, "id"), with the csv written from it
ComputeChanges ==
  /\ changes = NoChanges
  /\ changes' = [done |-> TRUE, rows |-> compute_changes(agg.rows)]
  /\ written' = written \cup {<<"prefix", "changes">>}
  /\ UNCHANGED <<clsVars, ci, stage, obs, sunRun, nClassify>>
  /\ UNCHANGED <<aggVars, series, tm, files, workers, extVars>>

NextChanges ==
  \/ ComputeChanges

SpecChanges == InitChanges /\ [][NextChanges]_vars

----------------------------------------------------------------------------
(* Claims about the change series (SpecChanges) *)

ChangeRows == IF changes.done THEN changes.rows ELSE <<>>

\* the positions of the records of a partition, which are in window order
PartRecords(part) ==
  {k \in 1..Len(ChangeRows) :
     ChangeRows[k].id = part[1] /\ ChangeRows[k].period = part[2]}

InputPartitions == IF agg.done THEN partitions(agg.rows) ELSE {}

\* equality of two float results, NaN taken as equal to NaN only
SameFloat(a, b) ==
  \/ IsNaN(a) /\ IsNaN(b)
  \/ ~IsNaN(a) /\ ~IsNaN(b) /\ RatEq(a, b)

\* C17: the first record of every (admin_id, period) partition has null
\* mean and median deltas, so no delta is taken across two partitions, and
\* a partition with one window has exactly one record, with null deltas.
C17_FirstDeltaIsNull ==
  changes.done =>
    \A part \in InputPartitions :
      LET R == PartRecords(part)
      IN  /\ R # {}
          /\ IsNaN(ChangeRows[SetMin(R)].mean_change)
          /\ IsNaN(ChangeRows[SetMin(R)].median_change)
          /\ \A k \in R : ChangeRows[k].date >= ChangeRows[SetMin(R)].date
          /\ (SetMax(part_dates(agg.rows, part)) - SetMin(part_dates(agg.rows, part))
                < CHANGE_FREQ) => Cardinality(R) = 1

\* the dates of the rows of a partition that lie in the window of record k
WindowDates(part, k) ==
  {d \in part_dates(agg.rows, part) :
     ChangeRows[k].date <= d /\ d < ChangeRows[k].date + CHANGE_FREQ}

\* a column of the rows of a partition in the window of record k, by date
WindowValues(part, k, c) ==
  window_column(agg.rows, part, part_dates(agg.rows, part), ChangeRows[k].date, c)

\* the windows of a partition start at its first date, follow one another
\* CHANGE_FREQ days apart, and every date of the partition lies in exactly
\* one of them
WindowsTile(part) ==
  LET R == PartRecords(part)
  IN  /\ R # {}
      /\ ChangeRows[SetMin(R)].date = SetMin(part_dates(agg.rows, part))
      /\ \A k \in R \ {SetMin(R)} :
            k - 1 \in R /\ ChangeRows[k].date = ChangeRows[k - 1].date + CHANGE_FREQ
      /\ \A d \in part_dates(agg.rows, part) :
            Cardinality({k \in R : d \in WindowDates(part, k)}) = 1

\* C23 as stated: the windows of a partition are consecutive, disjoint and
\* 7 days long, every date of the partition lies in exactly one, and a
\* window's mean and median are the arithmetic means of the mean and of the
\* median column of the rows of the window.
C23_WindowMedianIsMean ==
  changes.done =>
    \A part \in InputPartitions :
      /\ WindowsTile(part)
      /\ \A k \in PartRecords(part) :
           /\ SameFloat(ChangeRows[k].mean, RatMean(WindowValues(part, k, "mean")))
           /\ SameFloat(ChangeRows[k].median, RatMean(WindowValues(part, k, "median")))

\* C23 amended: the windows of a partition are consecutive, disjoint and
\* 7 days long, every date of the partition lies in exactly one, a window's
\* mean is the arithmetic mean of the mean column of the rows of the window
\* and its median is the median of their median column.
C23_WindowMedianIsMedian ==
  changes.done =>
    \A part \in InputPartitions :
      /\ WindowsTile(part)
      /\ \A k \in PartRecords(part) :
           /\ SameFloat(ChangeRows[k].mean, RatMean(WindowValues(part, k, "mean")))
           /\ Len(WindowValues(part, k, "mean")) = Cardinality(WindowDates(part, k))
           /\ SameFloat(ChangeRows[k].median, RatMedian(WindowValues(part, k, "median")))

\* a window with three rows whose medians have a median that is not their
\* mean
C23_Witness ==
  /\ changes.done
  /\ \E part \in InputPartitions : \E k \in PartRecords(part) :
       /\ Cardinality(WindowDates(part, k)) = 3
       /\ ~SameFloat(RatMedian(WindowValues(part, k, "median")),
                     RatMean(WindowValues(part, k, "median")))
       /\ SameFloat(ChangeRows[k].median, RatMedian(WindowValues(part, k, "median")))

\* two partitions, the second starting right after a record of the first
\* that has a value, and one of them with a single window
C17_Witness ==
  /\ changes.done
  /\ \E k \in 2..Len(ChangeRows) :
       /\ <<ChangeRows[k].id, ChangeRows[k].period>>
            # <<ChangeRows[k - 1].id, ChangeRows[k - 1].period>>
       /\ ~IsNaN(ChangeRows[k - 1].mean) /\ ~IsNaN(ChangeRows[k].mean)
       /\ ~RatEq(ChangeRows[k - 1].mean, ChangeRows[k].mean)
       /\ IsNaN(ChangeRows[k].mean_change)
       /\ Cardinality(PartRecords(<<ChangeRows[k].id, ChangeRows[k].period>>)) = 1

\* C18: within a partition, in window order, the deltas of every record
\* after the first are the differences of its mean and median to those of
\* the record before it.
C18_DeltaIsDifference ==
  changes.done =>
    \A part \in InputPartitions :
      \A k \in PartRecords(part) :
        k # SetMin(PartRecords(part)) =>
          /\ k - 1 \in PartRecords(part)
          /\ ChangeRows[k - 1].date + CHANGE_FREQ = ChangeRows[k].date
          /\ SameFloat(ChangeRows[k].mean_change,
                       RatSub(ChangeRows[k].mean, ChangeRows[k - 1].mean))
          /\ SameFloat(ChangeRows[k].median_change,
                       RatSub(ChangeRows[k].median, ChangeRows[k - 1].median))

\* a second window whose mean differs from the first one's: a delta that
\* is neither null nor zero
C18_Witness ==
  /\ changes.done
  /\ \E k \in 2..Len(ChangeRows) :
       /\ ChangeRows[k].id = ChangeRows[k - 1].id
       /\ ChangeRows[k].period = ChangeRows[k - 1].period
       /\ ~IsNaN(ChangeRows[k].mean_change)
       /\ ChangeRows[k].mean_change[1] # 0

----------------------------------------------------------------------------
(* Observation loader: read_parameter_csvs of app.py and app1.py, over the *)
(* csv files of a month folder.  A field is modelled by how it parses.     *)

Sources     == {1, 2}         \* the csv files found by glob
MaxFileRows == 2              \* rows of one csv file

\* a csv row: whether its station field is filled or empty (NaN), its
\* parameter code, whether the Data field parses as a timestamp, and
\* whether the Value field is a number, text that is no number, or missing
LoadRows ==
  {r \in [KodSH : {"set", "nan"},
          ParametrSH : {ParameterCodes[1], ParameterCodes[2]},
          Data : {"ok", "bad"}, Value : {"num", "bad", "nan"}] :
     /\ \/ r.Data = "ok" /\ r.Value # "nan"
        \/ r.ParametrSH = ParameterCodes[1] /\ (r.Data = "ok" \/ r.Value = "num")
     /\ r.KodSH = "nan" =>
          r.ParametrSH = ParameterCodes[1] /\ r.Data = "ok" /\ r.Value = "num"}

\* df[df["ParametrSH"] == parameter_code]: the lines of a file that match
matching(file, code) == {k \in 1..Len(file) : file[k].ParametrSH = code}

\* the lines left by dropna: app.py drops a line whose timestamp or value
\* is missing (subset=['datetime', 'Value']), app1.py a line with any
\* missing field, the station among them
kept_lines(i, file, code) ==
  {k \in matching(file, code) :
     /\ file[k].Data = "ok" /\ file[k].Value = "num"
     /\ i = "app1" => file[k].KodSH # "nan"}

\* the kept lines of a file as rows of the result, in file order
RECURSIVE kept_rows(_, _)
kept_rows(f, L) ==
  IF L = {} THEN <<>>
  ELSE LET k == SetMin(L)
       IN  <<[file |-> f, line |-> k]>> \o kept_rows(f, L \ {k})

\* app1.py: .astype(float) raises ValueError on text that is no number
astype_raises(file, code) ==
  \E k \in matching(file, code) : file[k].Value = "bad"

\* the loop over the files: the kept rows of every file, concatenated;
\* app.py coerces a bad value to NaN, app1.py lets the conversion raise
RECURSIVE load_files(_, _, _, _)
load_files(i, fs, F, code) ==
  IF F = {} THEN [raised |-> FALSE, rows |-> <<>>]
  ELSE LET f    == SetMin(F)
           rest == load_files(i, fs, F \ {f}, code)
       IN  IF i = "app1" /\ astype_raises(fs[f], code)
             THEN [raised |-> TRUE, rows |-> <<>>]
             ELSE [raised |-> rest.raised,
                   rows   |-> IF rest.raised THEN <<>>
                              ELSE kept_rows(f, kept_lines(i, fs[f], code)) \o rest.rows]

\* read_parameter_csvs(year_months, parameter_code)
read_parameter_csvs(i, fs, code) == load_files(i, fs, DOMAIN fs, code)

InitLoad ==
  /\ impl \in Impls
  /\ files \in [Sources -> SeqsUpTo(LoadRows, MaxFileRows)]
  /\ ci = 1 /\ stage = "read" /\ obs = <<>>
  /\ sunRun = NoCalls /\ nClassify = 0 /\ written = {}
  /\ series = <<>> /\ tm = NoTm /\ changes = NoChanges /\ workers = <<>>
  /\ ExtIdle
  /\ ClsIdle
  /\ AggIdle

\* obs = read_parameter_csvs(year_months, code)
LoadObs ==
  /\ stage = "read"
  /\ LET r == read_parameter_csvs(impl, files, Code)
     IN  IF r.raised
           THEN stage' = "aborted" /\ exc' = "ValueError" /\ obs' = obs
           ELSE stage' = "loaded" /\ exc' = exc /\ obs' = r.rows
  /\ UNCHANGED <<impl, eff, cstatus, cache, sunCalls, last>>
  /\ UNCHANGED <<ci, sunRun, nClassify, written>>
  /\ UNCHANGED <<aggVars, restVars>>

NextLoad ==
  \/ LoadObs

SpecLoad == InitLoad /\ [][NextLoad]_vars

----------------------------------------------------------------------------
(* Claims about the loader (SpecLoad) *)

\* the rows of the files that match the code and parse, by file and line
GoodRows ==
  {<<f, k>> \in Sources \X (1..MaxFileRows + 1) :
     /\ k <= Len(files[f])
     /\ files[f][k].ParametrSH = Code
     /\ files[f][k].Data = "ok" /\ files[f][k].Value = "num"}

LoadedRows == {<<obs[k].file, obs[k].line>> : k \in 1..Len(obs)}

\* C19: the load never fails on a row of another code or on a row whose
\* timestamp or value does not parse; it returns exactly the rows of the
\* requested code whose timestamp and value parse, of every file, once each.
C19_BadRowsDroppedNotFatal ==
  /\ stage # "aborted"
  /\ stage = "loaded" =>
       /\ LoadedRows = GoodRows
       /\ Len(obs) = Cardinality(GoodRows)

----------------------------------------------------------------------------
(* Two classify calls running at the same time, one per parameter          *)
(* pipeline, their loop steps interleaved.  The station reference is read  *)
(* by both; daynight_cache (app.py) / cache (app1.py) is a local variable  *)
(* of each call.                                                           *)

Workers    == {1, 2}          \* the two calls
ConcDates  == {1}             \* dates of the observations of the calls
MaxConcEff == 1               \* rows of the station reference

\* a call that has not started: no cache exists yet
IdleCall == [status |-> "idle", cache |-> EmptyCache, wrote |-> {}, served |-> {}]

\* one cache for all calls: every call uses the dictionary of call 1
cache_shared(ws, w) == ws[1].cache

\* the dictionary a call reads and writes: the local variable of the call
cache_of(ws, w) == ws[w].cache

\* a loop step of the call: a group (app.py) or an observation (app1.py)
call_step(i, c, e, kod, d, hours) ==
  IF i = "app" THEN group_step_app(c, NoCalls, e, kod, d, hours)
  ELSE obs_step_app1(c, NoCalls, e, kod, d, hours[1])

InitConc ==
  /\ impl \in Impls
  /\ eff \in SeqsUpTo(EffRows, MaxConcEff)
  /\ workers = [w \in Workers |-> IdleCall]
  /\ cstatus = "idle" /\ cache = EmptyCache /\ sunCalls = NoCalls
  /\ last = <<>> /\ exc = NoExc
  /\ series = <<>> /\ tm = NoTm /\ files = <<>> /\ changes = NoChanges
  /\ ExtIdle
  /\ RunIdle
  /\ AggIdle

\* the call starts: app.py builds loc_map, then the empty cache is created
StartCall(w) ==
  /\ workers[w].status = "idle"
  /\ workers' = [workers EXCEPT ![w] =
       [status |-> IF impl = "app" /\ LocMapRaises(eff) THEN "raised" ELSE "loop",
        cache |-> EmptyCache, wrote |-> {}, served |-> {}]]
  /\ UNCHANGED <<clsVars, runVars, aggVars, series, tm, files, changes, extVars>>

\* the call processes its next group or observation
StepCall(w) ==
  /\ workers[w].status = "loop"
  /\ \E kod \in Stations, d \in ConcDates, hours \in GroupHours :
       /\ impl = "app"  => \A k \in workers[w].wrote : KeyLess(k, <<kod, d>>)
       /\ impl = "app1" => Len(hours) = 1
       /\ LET c == cache_of(workers, w)
              r == call_step(impl, c, eff, kod, d, hours)
          IN  workers' = [workers EXCEPT ![w] =
                [status |-> IF r.raised THEN "raised" ELSE "loop",
                 cache  |-> r.cache,
                 wrote  |-> @.wrote \cup (DOMAIN r.cache \ DOMAIN c),
                 served |-> {<<r.rows[k].KodSH, r.rows[k].date>> :
                               k \in {j \in 1..Len(r.rows) : r.rows[j].hit}}]]
  /\ UNCHANGED <<clsVars, runVars, aggVars, series, tm, files, changes, extVars>>

\* the call returns
EndCall(w) ==
  /\ workers[w].status = "loop"
  /\ workers' = [workers EXCEPT ![w].status = "done", ![w].served = {}]
  /\ UNCHANGED <<clsVars, runVars, aggVars, series, tm, files, changes, extVars>>

NextConc ==
  \/ \E w \in Workers : StartCall(w)
  \/ \E w \in Workers : StepCall(w)
  \/ \E w \in Workers : EndCall(w)

SpecConc == InitConc /\ [][NextConc]_vars

----------------------------------------------------------------------------
(* Claims about concurrent classify calls (SpecConc) *)

\* C20: in every interleaving of two classify calls, the cache of a call
\* holds only entries the call wrote itself, and a call is served from the
\* cache only for keys it wrote itself.
C20_CachesNotShared ==
  \A w \in DOMAIN workers :
    /\ DOMAIN workers[w].cache = workers[w].wrote
    /\ workers[w].served \subseteq workers[w].wrote

\* both calls hold their own entry for the same key, and the second call
\* has just been served from its cache
C20_Witness ==
  /\ workers # <<>>
  /\ \E k \in Keys : k \in workers[1].wrote /\ k \in workers[2].wrote
  /\ workers[2].served # {}


-----------------------------------------------------------------------------
(* The data frames of one pipeline run as objects: a stage receives frame   *)
(* objects and returns a frame object.  An assignment df[col] = ... inside  *)
(* a stage writes the column of the object the caller passed; df = ...      *)
(* binds the local name to a new object and leaves the caller's object.     *)
(* A frame is the type of each of its columns and the keys its rows cover.  *)

\* the keys of observations: (KodSH, date, place of the label the
\* classifier gives the hour: 1 day, 2 night)
FrameKeys == Stations \X Dates \X {1, 2}

\* the unit a station is joined to by the aggregation
unit_of(kod) == 10 * kod

\* Series.astype(str): every value becomes a str
astype_str(t) == "str"

\* pd.to_datetime(column): every value becomes a datetime64 timestamp
to_datetime(t) == "datetime64"

\* DataFrame.copy() / merge / groupby().agg(): a new object, df untouched
copy_frame(df) == df

\* df[col] = f(df[col]) on the object itself
set_column(df, col, t) == [df EXCEPT !.cols = (col :> t) @@ df.cols]

\* the frame the loader returns: KodSH read as str, parsed time, float value
loaded_frame(keys) ==
  [cols |-> ("KodSH" :> "str") @@ ("datetime" :> "datetime64")
              @@ ("Value" :> "float"),
   rows |-> keys]

\* the caller's observations after the classifier ran on them
classify_input_after(i, df) ==
  IF i = "app" THEN df                                  \* df_obs.copy()
  ELSE set_column(df, "KodSH", astype_str(df.cols["KodSH"]))

\* the relation the classifier returns: a row per observation, labelled
classify_result(i, df) ==
  [cols |-> ("date" :> "date")
              @@ ((IF i = "app" THEN "daynight" ELSE "period") :> "str")
              @@ copy_frame(df).cols,
   rows |-> {<<k[1], k[2], PeriodLabels(i)[k[3]]>> : k \in df.rows}]

\* the relation the station statistics return, a row per (KodSH, date,
\* label); their input is only read
stats_result(i, df) ==
  [cols |-> ("KodSH" :> df.cols["KodSH"]) @@ ("date" :> df.cols["date"])
              @@ ((IF i = "app" THEN "daynight" ELSE "period") :> "str")
              @@ ("mean" :> "float") @@ ("median" :> "float")
              @@ ("count" :> "int") @@ ("trimmed_mean" :> "float"),
   rows |-> df.rows]

\* the caller's station statistics after an aggregation ran on them
aggregate_input_after(i, df) ==
  IF i = "app" THEN df                                  \* stats_df.copy()
  ELSE set_column(df, "KodSH", astype_str(df.cols["KodSH"]))

\* the aggregate relation: one row per (unit, date, period)
aggregate_result(i, df) ==
  [cols |-> ("id" :> "str") @@ ("date" :> df.cols["date"])
              @@ ((IF i = "app" THEN "daynight" ELSE "period") :> "str")
              @@ ("mean" :> "float") @@ ("median" :> "float")
              @@ ("trimmed_mean" :> "float") @@ ("count" :> "int"),
   rows |-> {<<unit_of(k[1]), k[2], k[3]>> : k \in df.rows}]

\* the caller's aggregate after compute_changes ran on it
changes_input_after(df) ==
  set_column(df, "date", to_datetime(df.cols["date"]))

\* the starts of the windows .resample(CHANGE_FREQ) makes of the dates of a
\* group: from its first date in steps of CHANGE_FREQ up to its last date
window_starts(D) ==
  IF D = {} THEN {}
  ELSE {SetMin(D) + (w - 1) * CHANGE_FREQ :
          w \in 1..((SetMax(D) - SetMin(D)) \div CHANGE_FREQ + 1)}

\* the dates of the rows of the (id, period) group g of an aggregate
group_dates(rows, g) == {k[2] : k \in {x \in rows : <<x[1], x[3]>> = g}}

\* the relation compute_changes returns: for every (id, period) group of
\* the aggregate one row per window of the dates of that group
changes_result(df) ==
  [cols |-> ("id" :> "str") @@ ("period" :> "str")
              @@ ("date" :> to_datetime(df.cols["date"]))
              @@ ("mean" :> "float") @@ ("median" :> "float")
              @@ ("mean_change" :> "float") @@ ("median_change" :> "float"),
   rows |-> UNION {{<<g[1], w, g[2]>> : w \in window_starts(group_dates(df.rows, g))} :
                     g \in {<<x[1], x[3]>> : x \in df.rows}}]

\* the frames a run has created so far
Made(name) == name \in DOMAIN frames

InitFrames ==
  /\ impl \in {"app", "app1"}
  /\ \E keys \in SUBSET FrameKeys :
       /\ keys # {}
       /\ frames = ("obs" :> loaded_frame(keys))
  /\ redis = <<>> /\ gui = <<>> /\ db = <<>> /\ imp = <<>>
  /\ series = <<>> /\ tm = NoTm /\ files = <<>>
  /\ changes = NoChanges /\ workers = <<>>
  /\ eff = <<>> /\ cstatus = "idle" /\ cache = EmptyCache
  /\ sunCalls = NoCalls /\ last = <<>> /\ exc = NoExc
  /\ RunIdle /\ AggIdle

FramesFrame ==
  UNCHANGED <<clsVars, runVars, aggVars, series, tm, files, changes, workers,
              redis, gui, db, imp>>

\* obs_dn = compute_day_night(obs, eff) / obs = add_day_night_astral(obs, eff)
\* (app1.py rebinds the name obs; the loaded object is the argument)
FrameClassify ==
  /\ Made("obs") /\ ~Made("classified")
  /\ frames' = ("classified" :> classify_result(impl, frames["obs"]))
                 @@ [frames EXCEPT !["obs"] = classify_input_after(impl, @)]
  /\ FramesFrame

\* stats = compute_daily_stats(obs_dn) / compute_stats(obs)
FrameStats ==
  /\ Made("classified") /\ ~Made("stats")
  /\ frames' = ("stats" :> stats_result(impl, frames["classified"])) @@ frames
  /\ FramesFrame

\* agg_voiv / v = aggregate_by_admin(stats, eff, voiv, ...)
FrameAggVoiv ==
  /\ Made("stats") /\ ~Made("voiv")
  /\ frames' = ("voiv" :> aggregate_result(impl, frames["stats"]))
                 @@ [frames EXCEPT !["stats"] = aggregate_input_after(impl, @)]
  /\ FramesFrame

\* agg_county / p = aggregate_by_admin(stats, eff, county, ...)
FrameAggCounty ==
  /\ Made("voiv") /\ ~Made("county")
  /\ frames' = ("county" :> aggregate_result(impl, frames["stats"]))
                 @@ [frames EXCEPT !["stats"] = aggregate_input_after(impl, @)]
  /\ FramesFrame

\* vc = compute_changes(v, "id"): app1.py only
FrameChangesVoiv ==
  /\ impl = "app1"
  /\ Made("county") /\ ~Made("vc")
  /\ frames' = ("vc" :> changes_result(frames["voiv"]))
                 @@ [frames EXCEPT !["voiv"] = changes_input_after(@)]
  /\ FramesFrame

\* pc = compute_changes(p, "id"): app1.py only
FrameChangesCounty ==
  /\ impl = "app1"
  /\ Made("vc") /\ ~Made("pc")
  /\ frames' = ("pc" :> changes_result(frames["county"]))
                 @@ [frames EXCEPT !["county"] = changes_input_after(@)]
  /\ FramesFrame

NextFrames ==
  \/ FrameClassify
  \/ FrameStats
  \/ FrameAggVoiv
  \/ FrameAggCounty
  \/ FrameChangesVoiv
  \/ FrameChangesCounty

SpecFrames == InitFrames /\ [][NextFrames]_vars

\* C21: a frame, once a stage has returned it or received it, keeps its
\* columns, the type of every column and its rows in every later step: no
\* stage changes the relation it was passed; in particular the station
\* statistics are the same for both aggregations and an aggregate is the
\* same after compute_changes.
C21_StagesLeaveInputsUnchanged ==
  [][\A f \in DOMAIN frames : frames'[f] = frames[f]]_vars


-----------------------------------------------------------------------------
(* The trimmed mean as a function of the group and of the fraction.        *)
(* app.py's trimmed_mean takes the fraction as a parameter; app1.py calls  *)
(* scipy's trim_mean with TRIM_PROP only.                                  *)

MaxTrimN      == 5                                     \* values of a group
TrimFractions == {<<1, 10>>, <<1, 4>>, <<2, 5>>, <<1, 2>>, <<3, 5>>}

\* scipy: if lowercut > uppercut: raise ValueError("Proportion too big.")
trim_mean_raises(a, proportiontocut) ==
  cut(Len(a), proportiontocut) > Len(a) - cut(Len(a), proportiontocut)

\* the fractions a caller can pass to the trimmed mean of an implementation
fractions(i) == IF i = "app" THEN TrimFractions ELSE {TRIM_PROP}

InitTrimF ==
  /\ impl \in Impls
  /\ series \in SeqsUpTo(TrimValues, MaxTrimN)
  /\ series # <<>>
  /\ tm = NoTm
  /\ files = <<>> /\ changes = NoChanges /\ workers = <<>>
  /\ ExtIdle
  /\ ClsIdle
  /\ RunIdle
  /\ AggIdle

\* trimmed_mean(series, trim) / trim_mean(x, TRIM_PROP) on one group
TrimWith ==
  /\ tm = NoTm
  /\ \E f \in fractions(impl) :
       tm' = [done   |-> TRUE,
              trim   |-> f,
              raised |-> impl = "app1" /\ trim_mean_raises(series, f),
              value  |-> IF impl = "app" THEN trimmed_mean(series, f)
                         ELSE trim_mean(series, f),
              mean   |-> Mean(series)]
  /\ UNCHANGED <<clsVars, runVars, aggVars, series, files, changes, workers, extVars>>

NextTrimF ==
  \/ TrimWith

SpecTrimF == InitTrimF /\ [][NextTrimF]_vars

\* the smallest and the largest element of a non-empty sequence
SeqMin(xs) == CHOOSE x \in {xs[i] : i \in 1..Len(xs)} :
                \A j \in 1..Len(xs) : x <= xs[j]

SeqMax(xs) == CHOOSE x \in {xs[i] : i \in 1..Len(xs)} :
                \A j \in 1..Len(xs) : x >= xs[j]

\* xs without one occurrence of v
WithoutOne(xs, v) ==
  LET at == CHOOSE i \in 1..Len(xs) : xs[i] = v
  IN  SubSeq(xs, 1, at - 1) \o SubSeq(xs, at + 1, Len(xs))

\* xs with its k lowest and its k highest values removed
RECURSIVE DropExtremes(_, _)
DropExtremes(xs, k) ==
  IF k = 0 THEN xs
  ELSE LET lo == WithoutOne(xs, SeqMin(xs))
       IN  DropExtremes(WithoutOne(lo, SeqMax(lo)), k - 1)

\* floor(n * f) for the group and the fraction of the call
TrimK == (Len(series) * tm.trim[1]) \div tm.trim[2]

\* C22: for n >= 1 values and fraction f, with k = floor(n * f): the result
\* is the plain mean when 2k >= n, and otherwise the mean of the values left
\* after the k lowest and the k highest are removed; the call does not raise
\* and the result is the mean of at least one value.
C22_TrimmedMeanByCut ==
  tm.done =>
    /\ ~tm.raised
    /\ tm.value[2] >= 1
    /\ IF 2 * TrimK >= Len(series)
       THEN RatEq(tm.value, <<Sum(series), Len(series)>>)
       ELSE /\ RatEq(tm.value, <<Sum(DropExtremes(series, TrimK)),
                                 Len(series) - 2 * TrimK>>)
            /\ tm.value[2] = Len(series) - 2 * TrimK

\* a group whose fraction would cut every value: the plain mean is returned
C22_Witness ==
  /\ tm.done
  /\ TrimK >= 1
  /\ 2 * TrimK >= Len(series)
  /\ SeqMin(series) < SeqMax(series)
  /\ RatEq(tm.value, tm.mean)

\* a group that is trimmed: values are cut and the result is not the mean
C22_TrimmedCase ==
  /\ tm.done
  /\ TrimK >= 1
  /\ 2 * TrimK < Len(series)
  /\ ~RatEq(tm.value, tm.mean)


-----------------------------------------------------------------------------
(* The stages called on a relation without rows.  An empty relation is its *)
(* columns and the type of its datetime column; a stage returns an empty   *)
(* relation or raises.                                                     *)

\* a call that raised the exception e
Raised(e) == [raised |-> e, cols |-> {}, dt |-> "none"]

\* an empty relation with the columns C and the datetime column of type t
Empty(C, t) == [raised |-> "none", cols |-> C, dt |-> t]

\* files without a row that is kept for the code, and without text in Value
NoQualifyingRows(i, fs, code) ==
  \A f \in DOMAIN fs :
    /\ kept_lines(i, fs[f], code) = {}
    /\ \A k \in 1..Len(fs[f]) : fs[f][k].Value # "bad"

\* read_parameter_csvs when no row is kept: without a file that has rows of
\* the code app.py returns DataFrame(columns=[...]) (object columns) and
\* app1.py DataFrame() (no column); otherwise the concatenation of the
\* emptied frames, which keep their parsed columns
load_empty(i, fs, code) ==
  IF \A f \in DOMAIN fs : matching(fs[f], code) = {}
    THEN IF i = "app" THEN Empty({"KodSH", "datetime", "Value"}, "object")
         ELSE Empty({}, "none")
    ELSE Empty({"KodSH", "datetime", "Value"}, "datetime64")

\* compute_day_night / add_day_night_astral on an empty relation
classify_empty(i, df) ==
  IF i = "app"
    THEN IF df.dt # "datetime64" THEN Raised("AttributeError")  \* .dt accessor
         ELSE Empty(df.cols \cup {"date"}, df.dt)                \* results == []
    ELSE IF "KodSH" \notin df.cols THEN Raised("KeyError")       \* df["KodSH"]
         ELSE IF df.dt # "datetime64" THEN Raised("AttributeError")
         ELSE Empty(df.cols \cup {"date", "period"}, df.dt)

\* compute_daily_stats / compute_stats on an empty classified relation
stats_empty(i, df) ==
  IF i = "app"
    THEN IF df.dt # "datetime64" THEN Raised("AttributeError")
         ELSE Raised("KeyError")      \* groupby 'daynight' / merge on tm_df
    ELSE IF ~({"KodSH", "date", "period", "Value"} \subseteq df.cols)
           THEN Raised("KeyError")
         ELSE Empty({"KodSH", "date", "period", "mean", "median", "count",
                     "trimmed_mean"}, "none")

\* an empty classified relation that has every column: rows filtered away
filtered_classified(i) ==
  Empty({"KodSH", "datetime", "Value", "date",
         IF i = "app" THEN "daynight" ELSE "period"}, "datetime64")

\* compute_change_over_interval on an aggregate without rows for the two
\* dates; idcol is the name of the aggregate's unit column
change_empty(idcol) ==
  IF idcol # "admin_id_field" THEN Raised("KeyError")      \* set_index
  ELSE Empty({}, "none")                                   \* pd.DataFrame([])

InitEmpty ==
  /\ impl \in Impls
  /\ files \in [Sources -> SeqsUpTo(LoadRows, MaxFileRows)]
  /\ NoQualifyingRows(impl, files, ParameterCodes[1])
  /\ frames = <<>>
  /\ redis = <<>> /\ gui = <<>> /\ db = <<>> /\ imp = <<>>
  /\ series = <<>> /\ tm = NoTm /\ changes = NoChanges /\ workers = <<>>
  /\ ClsIdle
  /\ RunIdle
  /\ AggIdle

EmptyFrame ==
  UNCHANGED <<clsVars, runVars, aggVars, series, tm, files, changes, workers,
              redis, gui, db, imp>>

\* obs = read_parameter_csvs(year_months, code)
EmptyLoad ==
  /\ frames = <<>>
  /\ frames' = ("obs" :> load_empty(impl, files, ParameterCodes[1]))
  /\ EmptyFrame

\* the classifier called on the loaded relation
EmptyClassify ==
  /\ Made("obs") /\ ~Made("classified")
  /\ frames["obs"].raised = "none"
  /\ frames' = ("classified" :> classify_empty(impl, frames["obs"])) @@ frames
  /\ EmptyFrame

\* the station statistics called on the classifier's result, or on a
\* classified relation whose rows were filtered away
EmptyStats ==
  /\ Made("obs") /\ ~Made("stats")
  /\ \/ /\ Made("classified") /\ frames["classified"].raised = "none"
        /\ frames' = ("stats" :> stats_empty(impl, frames["classified"])) @@ frames
     \/ frames' = ("stats" :> stats_empty(impl, filtered_classified(impl))) @@ frames
  /\ EmptyFrame

\* compute_change_over_interval(agg_df, start_date, end_date): app.py only
EmptyChange ==
  /\ impl = "app"
  /\ Made("obs") /\ ~Made("change")
  /\ \E idcol \in {"admin_id_field", "id"} :
       frames' = ("change" :> change_empty(idcol)) @@ frames
  /\ EmptyFrame

NextEmpty ==
  \/ EmptyLoad
  \/ EmptyClassify
  \/ EmptyStats
  \/ EmptyChange

SpecEmpty == InitEmpty /\ [][NextEmpty]_vars

\* C24: a stage given a relation without qualifying rows returns an empty
\* relation and does not raise: the loader, the classifier, the station
\* statistics and the change over an interval.
C24_EmptyInEmptyOut ==
  \A f \in DOMAIN frames : frames[f].raised = "none"


-----------------------------------------------------------------------------
(* The Redis keyspace and the GUI's clear_cache.  A key is the sequence of  *)
(* the pieces of its text, so that a key matches the pattern "p*" exactly   *)
(* when the pieces of p are a prefix of it.                                 *)

\* f"meteo:{KodSH}:{ParametrSH}": a sorted set of measurements
meteo_key(kod, par) == <<"meteo", ":", kod, ":", par>>

\* f"meteo_stats:{admin_id}:{date}:{parameter_code}:{period}"
meteo_stats_key(admin_id, date, par, period) ==
  <<"meteo", "_stats", ":", admin_id, ":", date, ":", par, ":", period>>

\* f"admin_list:{admin_type}"
admin_list_key(admin_type) == <<"admin_list", ":", admin_type>>

\* f"query_counter:{query_type}"
query_counter_key(query_type) == <<"query_counter", ":", query_type>>

\* the sorted sets of measurements the importer writes, one of them of a
\* station named like the suffix of the cache prefix
StationKeys == {meteo_key(k, "B00300S") : k \in {"1", "_stats"}}

\* the keys the importer writes
MeasurementKeys ==
  StationKeys \cup {<<"meteo", ":", "parameters">>, <<"meteo", ":", "last_update">>}

\* the admin units a result is cached for
StatsUnits == {"1"}

\* the keys of cached results and of cached lists, written with an expiry
ExpiringKeys ==
  {meteo_stats_key(a, "d1", "all", "wojewodztwo") : a \in StatsUnits}
    \cup {admin_list_key(t) : t \in {"wojewodztwa", "powiaty"}}

\* the keys of the query counters
CounterKeys ==
  {query_counter_key(q) : q \in {"date_selection", "wojewodztwo_selection"}}

\* the keys the result cache, the list cache and the counters write
CacheKeys == ExpiringKeys \cup CounterKeys

RedisKeys == MeasurementKeys \cup CacheKeys

MaxCount == 2                 \* the highest value a query counter takes

\* the contents a key of each kind takes
RedisValues == {"x", "y"}

\* the maps from some of the keys Ks to the values V
Maps(Ks, V) == UNION {[K -> V] : K \in SUBSET Ks}

\* the contents of the store: measurements with one of two values, cached
\* results and lists, counters
RedisContents ==
  {m @@ c @@ n : m \in Maps(MeasurementKeys, RedisValues),
                 c \in Maps(ExpiringKeys, {"x"}),
                 n \in Maps(CounterKeys, 1..MaxCount)}

\* the pieces of a pattern "p*" before its star
StatsPattern   == <<"meteo", "_stats", ":">>
AdminPattern   == <<"admin_list", ":">>
CounterPattern == <<"query_counter", ":">>

\* KEYS with the separator and the suffix of the pattern lost: "meteo*"
keys_short(content, prefix) ==
  {k \in DOMAIN content : Len(k) >= 1 /\ SubSeq(k, 1, 1) = SubSeq(prefix, 1, 1)}

\* redis_client.keys(pattern): the keys whose text starts with the prefix
keys(content, prefix) ==
  {k \in DOMAIN content :
     Len(k) >= Len(prefix) /\ SubSeq(k, 1, Len(prefix)) = prefix}

\* redis_client.delete(*ks)
delete(content, ks) == [k \in DOMAIN content \ ks |-> content[k]]

\* the handler at rest: no box open, nothing listed, the status bar untouched
CacheIdle == [pc |-> "idle", listed |-> {}, box |-> <<"none", 0>>,
              status |-> "none"]

InitCache ==
  /\ impl = "app"
  /\ redis \in RedisContents
  /\ db \in [redis_client : {"None", "client"}]
  /\ gui = CacheIdle
  /\ frames = <<>> /\ imp = <<>>
  /\ series = <<>> /\ tm = NoTm /\ files = <<>>
  /\ changes = NoChanges /\ workers = <<>>
  /\ eff = <<>> /\ cstatus = "idle" /\ cache = EmptyCache
  /\ sunCalls = NoCalls /\ last = <<>> /\ exc = NoExc
  /\ RunIdle
  /\ AggIdle

CacheFrame ==
  UNCHANGED <<clsVars, runVars, aggVars, series, tm, files, changes, workers,
              frames, imp>>

\* a round trip of clear_cache raised: except Exception -> showerror
clear_raised(g) == [g EXCEPT !.pc = "return", !.listed = {},
                             !.box = <<"Blad", 0>>]

\* cache_keys = / cache_keys += redis_client.keys(pattern): one round trip.
\* The three patterns match disjoint keys, so the list has no key twice.
clear_keys(g, content, prefix, pc) ==
  [g EXCEPT !.pc = pc, !.listed = @ \cup keys(content, prefix)]

\* clear_cache: if db.redis_client is not None, then KEYS "meteo_stats:*",
\* which answers or raises
ClearKeysStats ==
  /\ gui.pc = "idle"
  /\ \/ /\ db.redis_client = "None"
        /\ gui' = [gui EXCEPT !.pc = "return", !.box = <<"Uwaga", 0>>]
     \/ /\ db.redis_client # "None"
        /\ gui' = clear_raised(gui)
     \/ /\ db.redis_client # "None"
        /\ gui' = clear_keys(gui, redis, StatsPattern, "admin")
  /\ UNCHANGED <<redis, db>>
  /\ CacheFrame

\* clear_cache: KEYS "admin_list:*", which answers or raises
ClearKeysAdmin ==
  /\ gui.pc = "admin"
  /\ \/ gui' = clear_raised(gui)
     \/ gui' = clear_keys(gui, redis, AdminPattern, "counter")
  /\ UNCHANGED <<redis, db>>
  /\ CacheFrame

\* clear_cache: KEYS "query_counter:*", which answers or raises, then
\* "if cache_keys"
ClearKeysCounter ==
  /\ gui.pc = "counter"
  /\ \/ gui' = clear_raised(gui)
     \/ LET g == clear_keys(gui, redis, CounterPattern, "delete")
        IN  gui' = IF g.listed # {} THEN g ELSE [g EXCEPT !.pc = "box"]
  /\ UNCHANGED <<redis, db>>
  /\ CacheFrame

\* clear_cache: redis_client.delete(*cache_keys) of the keys listed before,
\* which answers or raises with nothing deleted
ClearDelete ==
  /\ gui.pc = "delete"
  /\ \/ /\ gui' = clear_raised(gui)
        /\ redis' = redis
     \/ /\ gui' = [gui EXCEPT !.pc = "box"]
        /\ redis' = delete(redis, gui.listed)
  /\ db' = db
  /\ CacheFrame

\* clear_cache: messagebox.showinfo opens; the count is that of the listing
ClearBox ==
  /\ gui.pc = "box"
  /\ gui' = [gui EXCEPT
               !.pc = "status",
               !.box = IF gui.listed # {}
                         THEN <<"Sukces", Cardinality(gui.listed)>>
                         ELSE <<"Info", 0>>]
  /\ UNCHANGED <<redis, db>>
  /\ CacheFrame

\* the box is dismissed; after showinfo set_status("Cache wyczyszczony"),
\* after showwarning and showerror the handler returns
ClearReturn ==
  /\ gui.pc \in {"status", "return"}
  /\ gui' = [CacheIdle EXCEPT
               !.status = IF gui.pc = "status" THEN "Cache wyczyszczony"
                          ELSE gui.status]
  /\ UNCHANGED <<redis, db>>
  /\ CacheFrame

\* connect_redis() of the connect thread: redis_client = Redis(...)
CacheConnect ==
  /\ db' = [db EXCEPT !.redis_client = "client"]
  /\ UNCHANGED <<redis, gui>>
  /\ CacheFrame

\* redis_client.setex(key, expire_seconds, value) of cache_set
setex(content, k, v) == (k :> v) @@ content

\* redis_client.incr(key): 1 for a key that is not there
incr(content, k) ==
  (k :> IF k \in DOMAIN content THEN content[k] + 1 ELSE 1) @@ content

\* db.cache_meteo_stats(woj, date, "all", results, "wojewodztwo") of a calc
\* thread, at any point of the handler
CacheMeteoStats ==
  /\ db.redis_client # "None"
  /\ \E a \in StatsUnits :
       redis' = setex(redis, meteo_stats_key(a, "d1", "all", "wojewodztwo"), "x")
  /\ UNCHANGED <<gui, db>>
  /\ CacheFrame

\* db.cache_admin_list(admin_type, data) of the load thread, at any point of
\* the handler
CacheAdminList ==
  /\ db.redis_client # "None"
  /\ \E t \in {"wojewodztwa", "powiaty"} :
       redis' = setex(redis, admin_list_key(t), "x")
  /\ UNCHANGED <<gui, db>>
  /\ CacheFrame

\* db.increment_query_counter(query_type) of wybierz_date and of
\* on_wojewodztwo_selected, handlers of the main thread, which is not inside
\* clear_cache
IncrementQueryCounter ==
  /\ gui.pc = "idle"
  /\ db.redis_client # "None"
  /\ \E k \in CounterKeys :
       /\ k \in DOMAIN redis => redis[k] < MaxCount
       /\ redis' = incr(redis, k)
  /\ UNCHANGED <<gui, db>>
  /\ CacheFrame

\* setup_redis_indexes of the importer: hset("meteo:parameters", code, name)
SetupParameters ==
  /\ \E v \in RedisValues : redis' = (<<"meteo", ":", "parameters">> :> v) @@ redis
  /\ UNCHANGED <<gui, db>>
  /\ CacheFrame

\* setup_redis_indexes of the importer: set("meteo:last_update", now)
SetupLastUpdate ==
  /\ \E v \in RedisValues : redis' = (<<"meteo", ":", "last_update">> :> v) @@ redis
  /\ UNCHANGED <<gui, db>>
  /\ CacheFrame

\* the importer, a process of its own: zadd on the sorted set of a station,
\* by import_meteo_to_redis or by create_demo_meteo_data
ImportMeasurement ==
  /\ \E k \in StationKeys, v \in RedisValues : redis' = (k :> v) @@ redis
  /\ UNCHANGED <<gui, db>>
  /\ CacheFrame

\* db.cache_delete(key): DEL of any one key.  No statement of main_gui.py
\* or import_data.py calls it; it is there for a caller of the module
CacheDelete ==
  /\ db.redis_client # "None"
  /\ \E k \in DOMAIN redis : redis' = delete(redis, {k})
  /\ UNCHANGED <<gui, db>>
  /\ CacheFrame

\* a key written by setex is gone when its time is over
ExpireKey ==
  /\ \E k \in DOMAIN redis \cap ExpiringKeys : redis' = delete(redis, {k})
  /\ UNCHANGED <<gui, db>>
  /\ CacheFrame

NextCache ==
  \/ ClearKeysStats
  \/ ClearKeysAdmin
  \/ ClearKeysCounter
  \/ ClearDelete
  \/ ClearBox
  \/ ClearReturn
  \/ CacheConnect
  \/ CacheMeteoStats
  \/ CacheAdminList
  \/ IncrementQueryCounter
  \/ ImportMeasurement
  \/ SetupParameters
  \/ SetupLastUpdate
  \/ CacheDelete
  \/ ExpireKey

SpecCache == InitCache /\ [][NextCache]_vars

\* a step of MeteoApp.clear_cache
ClearCacheStep ==
  \/ ClearKeysStats \/ ClearKeysAdmin \/ ClearKeysCounter
  \/ ClearDelete \/ ClearBox \/ ClearReturn

\* C25: the steps of clear_cache remove only keys that match meteo_stats:*,
\* admin_list:* or query_counter:*, and every measurement key, with
\* meteo:parameters and meteo:last_update, is there after each step, and so
\* after the handler, with the content it had before.
C25_ClearCacheKeepsMeasurements ==
  [][ClearCacheStep =>
       /\ \A k \in DOMAIN redis \ DOMAIN redis' :
            \E pre \in {StatsPattern, AdminPattern, CounterPattern} :
              SubSeq(k, 1, Len(pre)) = pre
       /\ \A k \in DOMAIN redis \cap MeasurementKeys :
            k \in DOMAIN redis' /\ redis'[k] = redis[k]]_vars

\* clear_cache has deleted cache keys and shows their number, and the
\* measurement keys are there, the one of a station named like the cache
\* prefix among them
C25_Witness ==
  /\ gui.pc = "status"
  /\ gui.box[1] = "Sukces" /\ gui.box[2] >= 2
  /\ MeasurementKeys \subseteq DOMAIN redis
  /\ DOMAIN redis \cap CacheKeys = {}


-----------------------------------------------------------------------------
(* One classify call on observations that may lack a station code, with a  *)
(* station reference that may list an id twice.                            *)

MaxEmitEff == 2               \* rows of the station reference
MaxEmitObs == 2               \* observations passed to the classifier

EmitEffRows == [id : Stations, geom : {"L1", NoGeom}]

EmitObs == [KodSH : Stations \cup {MissingKod}, date : {1}, hour : {6},
            Value : StatValues]

InitEmit ==
  /\ impl \in Impls
  /\ stage = "classify"
  /\ obs \in SeqsUpTo(EmitObs, MaxEmitObs) \ {<<>>}
  /\ eff \in SeqsUpTo(EmitEffRows, MaxEmitEff)
  /\ last = <<>>
  /\ stats = <<>> /\ admin = <<>> /\ agg = NoAgg
  /\ cstatus = "idle" /\ cache = EmptyCache /\ sunCalls = NoCalls /\ exc = NoExc
  /\ ci = 1 /\ sunRun = NoCalls /\ nClassify = 0 /\ written = {}
  /\ RestIdle

NextEmit ==
  \/ ClassifyObs

SpecEmit == InitEmit /\ [][NextEmit]_vars

\* how many rows of a relation carry this station, date and value
RowCount(rows, kod, d, v) ==
  Cardinality({k \in 1..Len(rows) :
                 rows[k].KodSH = kod /\ rows[k].date = d /\ rows[k].Value = v})

\* C26: the classifier returns, and its result holds every input
\* observation exactly once, with its station id, its date and its value:
\* none is dropped, a missing station code included, and none is repeated,
\* a station reference that lists an id twice included.
C26_OneRowPerObservation ==
  /\ stage # "aborted"
  /\ stage = "stats" =>
       /\ Len(last) = Len(obs)
       /\ \A k \in 1..Len(last) : last[k].period \in Labels(impl)
       /\ \A o \in EmitObs :
            RowCount(last, o.KodSH, o.date, o.Value)
              = RowCount(obs, o.KodSH, o.date, o.Value)


-----------------------------------------------------------------------------
(* The GUI's calculation requests: licz_wojewodztwo / licz_powiat start a  *)
(* thread per request; the thread's calls and its root.after callbacks     *)
(* interleave with those of the other threads and with the main loop,      *)
(* which runs the scheduled callbacks in the order they were scheduled.    *)

MaxReq   == 2                 \* requests issued
Units    == {"A", "B"}        \* the selected admin unit of a request
NoResult == [unit |-> "None"]     \* None: no cached result, nothing shown

\* calculate_statistics(admin_id, date, admin_type): the result of a unit
calculate_statistics(u) == [unit |-> u]

\* db.get_cached_meteo_stats: None without a client or without the key
get_cached_meteo_stats(d, content, u) ==
  IF d.redis_client = "None" THEN NoResult
  ELSE IF u \in DOMAIN content THEN content[u] ELSE NoResult

\* cache_meteo_stats with the key left unwritten
cache_meteo_stats_skip(d, content, u, results) == content

\* db.cache_meteo_stats: the content after the call
cache_meteo_stats(d, content, u, results) ==
  IF d.redis_client = "None" THEN content ELSE (u :> results) @@ content

\* db.save_statistics_mongo: the statistics collection after the call
save_statistics_mongo(d, u, results) ==
  IF d.mongo_db = "None" THEN d ELSE [d EXCEPT !.saved = @ \cup {u}]

\* the thread of request r after a step: its place, the step logged
Moved(r, pc, step) ==
  [gui EXCEPT !.th[r].pc = pc, !.th[r].log = Append(@, step)]

\* a call of the thread of request r raised: the thread is in its except
\* clause; its log keeps the raise and what follows it
Raise(r) == [gui EXCEPT !.th[r].pc = "err", !.th[r].log = <<"raise">>]

\* self.root.after(0, callback) by the thread of request r
After(g, r, kind, res) ==
  [g EXCEPT !.queue = Append(@, [kind |-> kind, req |-> r, res |-> res])]

InitGui ==
  /\ impl = "app"
  /\ gui = [th |-> <<>>, queue |-> <<>>, shown |-> NoResult, status |-> "Gotowy",
            clr |-> [pc |-> "idle", listed |-> {}], load |-> "running"]
  /\ \E K \in {{}, {"A"}} : redis = [u \in K |-> calculate_statistics(u)]
  /\ db = [redis_client |-> "None", mongo_db |-> "None", saved |-> {}]
  /\ frames = <<>> /\ imp = <<>>
  /\ series = <<>> /\ tm = NoTm /\ files = <<>>
  /\ changes = NoChanges /\ workers = <<>>
  /\ eff = <<>> /\ cstatus = "idle" /\ cache = EmptyCache
  /\ sunCalls = NoCalls /\ last = <<>> /\ exc = NoExc
  /\ RunIdle
  /\ AggIdle

GuiFrame ==
  UNCHANGED <<clsVars, runVars, aggVars, series, tm, files, changes, workers,
              frames, imp>>

\* licz_wojewodztwo / licz_powiat on the main thread, which is not inside
\* clear_cache: the thread is started
Licz ==
  /\ gui.clr.pc = "idle"
  /\ Len(gui.th) < MaxReq
  /\ \E u \in Units :
       gui' = [gui EXCEPT
                 !.th = Append(@, [unit |-> u, pc |-> "get", log |-> <<>>,
                                   cached |-> NoResult, results |-> NoResult]),
                 !.status = "Obliczanie"]
  /\ UNCHANGED <<redis, db>>
  /\ GuiFrame

\* cached = db.get_cached_meteo_stats(...); if cached: ...
GuiGet(r) ==
  /\ r <= Len(gui.th)
  /\ gui.th[r].pc = "get"
  /\ \/ /\ db.redis_client # "None"
        /\ gui' = Raise(r)
     \/ LET c == get_cached_meteo_stats(db, redis, gui.th[r].unit)
        IN  gui' = [Moved(r, IF c # NoResult THEN "hit" ELSE "calc", "get")
                      EXCEPT !.th[r].cached = c]
  /\ UNCHANGED <<redis, db>>
  /\ GuiFrame

\* the two root.after calls of the cached branch, then return
GuiHit(r) ==
  /\ r <= Len(gui.th)
  /\ \/ /\ gui.th[r].pc = "hit"
        /\ gui' = After(Moved(r, "hit2", "after_display"), r, "display",
                        gui.th[r].cached)
     \/ /\ gui.th[r].pc = "hit2"
        /\ gui' = After(Moved(r, "done", "after_status"), r, "status", "Wyniki z cache")
  /\ UNCHANGED <<redis, db>>
  /\ GuiFrame

\* results = self.calculate_statistics(...)
GuiCalc(r) ==
  /\ r <= Len(gui.th)
  /\ gui.th[r].pc = "calc"
  /\ \/ gui' = Raise(r)
     \/ gui' = [Moved(r, "cache", "calc")
                  EXCEPT !.th[r].results = calculate_statistics(gui.th[r].unit)]
  /\ UNCHANGED <<redis, db>>
  /\ GuiFrame

\* db.cache_meteo_stats(...)
GuiCache(r) ==
  /\ r <= Len(gui.th)
  /\ gui.th[r].pc = "cache"
  /\ \/ /\ db.redis_client # "None"
        /\ gui' = Raise(r)
        /\ redis' = redis
     \/ /\ gui' = Moved(r, "mongo", "cache")
        /\ redis' = cache_meteo_stats(db, redis, gui.th[r].unit, gui.th[r].results)
  /\ db' = db
  /\ GuiFrame

\* db.save_statistics_mongo(...)
GuiMongo(r) ==
  /\ r <= Len(gui.th)
  /\ gui.th[r].pc = "mongo"
  /\ \/ /\ db.mongo_db # "None"
        /\ gui' = Raise(r)
        /\ db' = db
     \/ /\ gui' = Moved(r, "show", "mongo")
        /\ db' = save_statistics_mongo(db, gui.th[r].unit, gui.th[r].results)
  /\ redis' = redis
  /\ GuiFrame

\* the two root.after calls that end the computed branch
GuiShow(r) ==
  /\ r <= Len(gui.th)
  /\ \/ /\ gui.th[r].pc = "show"
        /\ gui' = After(Moved(r, "show2", "after_display"), r, "display",
                        gui.th[r].results)
     \/ /\ gui.th[r].pc = "show2"
        /\ gui' = After(Moved(r, "done", "after_status"), r, "status",
                        "Obliczenia zakonczone")
  /\ UNCHANGED <<redis, db>>
  /\ GuiFrame

\* except Exception: the two root.after calls of the handler
GuiExcept(r) ==
  /\ r <= Len(gui.th)
  /\ \/ /\ gui.th[r].pc = "err"
        /\ gui' = After(Moved(r, "err2", "after_error_status"), r, "status", "Blad")
     \/ /\ gui.th[r].pc = "err2"
        /\ gui' = After(Moved(r, "done", "after_error_box"), r, "box", "Blad")
  /\ UNCHANGED <<redis, db>>
  /\ GuiFrame

\* the main loop, also the one of an open message box, runs the callback
\* scheduled first.  The callback of the load thread's except clause reads
\* e, which the thread unbinds when the clause ends: run before that it
\* sets the status, run after it it raises NameError and sets nothing
RunCallback ==
  /\ gui.clr.pc # "delete"
  /\ gui.queue # <<>>
  /\ LET cb == Head(gui.queue)
     IN  \E bound \in BOOLEAN :
           /\ cb.kind # "status_e" => bound
           /\ gui' = [gui EXCEPT
                        !.queue  = Tail(@),
                        !.shown  = IF cb.kind = "display" THEN cb.res ELSE @,
                        !.status = IF cb.kind = "status"
                                        \/ (cb.kind = "status_e" /\ bound)
                                     THEN cb.res ELSE @]
  /\ UNCHANGED <<redis, db>>
  /\ GuiFrame

\* MeteoApp.clear_cache on the main thread, up to the reply of the KEYS
\* calls: the result keys there are listed.  Without a client (showwarning)
\* or with a call that raises (showerror) the handler ends; with nothing
\* listed, no list or counter key either, the box "Cache jest pusty" opens
GuiClearKeys ==
  /\ gui.clr.pc = "idle"
  /\ \/ /\ db.redis_client = "None"
        /\ gui' = gui
     \/ /\ db.redis_client # "None"
        /\ gui' = gui
     \/ /\ db.redis_client # "None"
        /\ \E others \in BOOLEAN :
             gui' = [gui EXCEPT !.clr = [pc |-> IF DOMAIN redis # {} \/ others
                                                 THEN "delete" ELSE "box",
                                        listed |-> DOMAIN redis]]
  /\ UNCHANGED <<redis, db>>
  /\ GuiFrame

\* clear_cache: redis_client.delete(*cache_keys) of the keys listed, then
\* the box "Wyczyszczono n kluczy cache" opens; or the call raises
GuiClearDelete ==
  /\ gui.clr.pc = "delete"
  /\ \/ /\ redis' = redis
        /\ gui' = [gui EXCEPT !.clr.pc = "idle", !.clr.listed = {}]
     \/ /\ redis' = [u \in DOMAIN redis \ gui.clr.listed |-> redis[u]]
        /\ gui' = [gui EXCEPT !.clr.pc = "box", !.clr.listed = {}]
  /\ db' = db
  /\ GuiFrame

\* clear_cache: the box is dismissed, set_status("Cache wyczyszczony")
GuiClearStatus ==
  /\ gui.clr.pc = "box"
  /\ gui' = [gui EXCEPT !.clr.pc = "idle", !.status = "Cache wyczyszczony"]
  /\ UNCHANGED <<redis, db>>
  /\ GuiFrame

\* the expiry cache_set gives every cached result (expire_seconds=7200)
Expire(u) ==
  /\ u \in DOMAIN redis
  /\ redis' = [v \in DOMAIN redis \ {u} |-> redis[v]]
  /\ UNCHANGED <<gui, db>>
  /\ GuiFrame

\* connect_mongodb() of a thread started by connect_databases, at start-up
\* or by the reconnect button: server_info() answered and mongo_db is set
GuiConnectMongo ==
  /\ db' = [db EXCEPT !.mongo_db = "db"]
  /\ UNCHANGED <<redis, gui>>
  /\ GuiFrame

\* connect_redis() of such a thread: redis_client = Redis(...)
GuiConnectRedis ==
  /\ db' = [db EXCEPT !.redis_client = "client"]
  /\ UNCHANGED <<redis, gui>>
  /\ GuiFrame

\* the thread of load_admin_data ends: root.after(0, update_dropdowns),
\* which sets the status; or, in its except branch, root.after(0, lambda:
\* set_status(f"... {e}")), a callback that reads the name e of the clause
GuiLoaded ==
  /\ gui.load = "running"
  /\ \E cb \in {<<"status", "Dane zaladowane">>,
                 <<"status_e", "Blad ladowania danych">>} :
       gui' = [After(gui, 0, cb[1], cb[2]) EXCEPT !.load = "done"]
  /\ UNCHANGED <<redis, db>>
  /\ GuiFrame

\* on_wojewodztwo_selected / on_powiat_selected on the main thread, which is
\* not inside clear_cache: set_status("Wybrano ..."), then the counter
GuiSelect ==
  /\ gui.clr.pc = "idle"
  /\ gui' = [gui EXCEPT !.status = "Wybrano"]
  /\ UNCHANGED <<redis, db>>
  /\ GuiFrame

NextGui ==
  \/ Licz
  \/ \E r \in 1..MaxReq : GuiGet(r)
  \/ \E r \in 1..MaxReq : GuiHit(r)
  \/ \E r \in 1..MaxReq : GuiCalc(r)
  \/ \E r \in 1..MaxReq : GuiCache(r)
  \/ \E r \in 1..MaxReq : GuiMongo(r)
  \/ \E r \in 1..MaxReq : GuiShow(r)
  \/ \E r \in 1..MaxReq : GuiExcept(r)
  \/ RunCallback
  \/ GuiClearKeys
  \/ GuiClearDelete
  \/ GuiClearStatus
  \/ GuiConnectMongo
  \/ GuiConnectRedis
  \/ GuiLoaded
  \/ GuiSelect
  \/ \E u \in Units : Expire(u)

SpecGui == InitGui /\ [][NextGui]_vars

----------------------------------------------------------------------------
(* Claims about the calculation requests (SpecGui) *)

IsPrefix(a, b) == Len(a) <= Len(b) /\ SubSeq(b, 1, Len(a)) = a

\* the steps of a thread that found a cached result
HitSteps == <<"get", "after_display", "after_status">>

\* the steps of a thread that found none
MissSteps == <<"get", "calc", "cache", "mongo", "after_display", "after_status">>

\* the steps of a thread from the call that raised
ErrSteps == <<"raise", "after_error_status", "after_error_box">>

\* the callbacks of request r that are scheduled and not yet run
Scheduled(r, kind) ==
  {k \in 1..Len(gui.queue) : gui.queue[k].req = r /\ gui.queue[k].kind = kind}

Raised27(t) == \E k \in 1..Len(t.log) : t.log[k] = "raise"

\* what a thread has logged and scheduled so far agrees with the protocol
ProtocolLogs ==
  \A r \in 1..Len(gui.th) :
    LET t == gui.th[r]
    IN  /\ \/ t.cached # NoResult /\ IsPrefix(t.log, HitSteps)
           \/ t.cached = NoResult /\ IsPrefix(t.log, MissSteps)
           \/ t.cached = NoResult /\ IsPrefix(t.log, ErrSteps)
        /\ \A k \in Scheduled(r, "display") :
             /\ ~Raised27(t)
             /\ gui.queue[k].res = IF t.cached # NoResult THEN t.cached
                                   ELSE calculate_statistics(t.unit)
        /\ t.unit \in db.saved =>
             \E q \in 1..Len(gui.th) :
               gui.th[q].unit = t.unit /\ Len(gui.th[q].log) >= 4
                 /\ IsPrefix(SubSeq(MissSteps, 1, 4), gui.th[q].log)

\* a step of the thread of request r writes the cache only as its cache
\* step, and then the computed result under the key of its unit
ProtocolWrites ==
  \A r \in 1..Len(gui.th) :
    LET t == gui.th[r]
    IN  gui'.th[r] # t =>
          IF Len(gui'.th[r].log) = 3 /\ gui'.th[r].log = SubSeq(MissSteps, 1, 3)
               /\ db.redis_client # "None"
            THEN /\ DOMAIN redis' = DOMAIN redis \cup {t.unit}
                 /\ redis'[t.unit] = calculate_statistics(t.unit)
                 /\ \A u \in DOMAIN redis \ {t.unit} : redis'[u] = redis[u]
            ELSE redis' = redis

\* a step of the thread of request r writes MongoDB only as its save step,
\* and then the statistics of its unit
ProtocolSaves ==
  \A r \in 1..Len(gui.th) :
    LET t == gui.th[r]
    IN  gui'.th[r] # t =>
          IF Len(gui'.th[r].log) = 4 /\ gui'.th[r].log = SubSeq(MissSteps, 1, 4)
               /\ db.mongo_db # "None"
            THEN db' = [db EXCEPT !.saved = @ \cup {t.unit}]
            ELSE db' = db

\* the step in which the thread of request r logs its k-th call
StepOf(r, k) ==
  /\ r <= Len(gui.th)
  /\ Len(gui.th[r].log) = k - 1
  /\ gui'.th[r].log = SubSeq(MissSteps, 1, k)

\* the get step finds the cached result whenever the cache holds one
StatedReads ==
  \A r \in 1..MaxReq :
    StepOf(r, 1) =>
      gui'.th[r].cached = IF gui.th[r].unit \in DOMAIN redis
                            THEN redis[gui.th[r].unit] ELSE NoResult

\* the cache step leaves the computed result in the cache
StatedWrites ==
  \A r \in 1..MaxReq :
    StepOf(r, 3) =>
      /\ gui.th[r].unit \in DOMAIN redis'
      /\ redis'[gui.th[r].unit] = calculate_statistics(gui.th[r].unit)

\* the save step leaves the statistics in MongoDB
StatedSaves ==
  \A r \in 1..MaxReq :
    StepOf(r, 4) => gui.th[r].unit \in db'.saved

\* the main loop runs a scheduled display or status callback: the result is
\* displayed, the status is shown
ProtocolShows ==
  (gui.queue # <<>> /\ gui'.queue = Tail(gui.queue) /\ gui'.th = gui.th) =>
    /\ Head(gui.queue).kind = "display" => gui'.shown = Head(gui.queue).res
    /\ Head(gui.queue).kind = "status" => gui'.status = Head(gui.queue).res

\* C27 as stated: if a cached result exists the thread displays it, calls
\* calculate_statistics not at all and writes nothing; otherwise it calls
\* calculate_statistics once, then writes the result to the cache, then to
\* MongoDB, then schedules its display; a thread in which a call raised
\* schedules the error status and no display.
C27_CacheProtocolAsStated ==
  []ProtocolLogs
    /\ [][StatedReads /\ StatedWrites /\ StatedSaves
           /\ ProtocolWrites /\ ProtocolSaves /\ ProtocolShows]_vars

\* the get step finds the cached result when redis_client is set by then
\* and the cache holds one, and none otherwise
ProtocolReads ==
  \A r \in 1..MaxReq :
    StepOf(r, 1) =>
      gui'.th[r].cached = IF db.redis_client # "None" /\ gui.th[r].unit \in DOMAIN redis
                            THEN redis[gui.th[r].unit] ELSE NoResult

\* C27 amended: a thread that gets a cached result (redis_client is set
\* and the cache holds one) schedules the display of that result, makes no
\* other call and writes nothing; a thread that gets none calls
\* calculate_statistics once, then calls cache_meteo_stats, which writes
\* the result to the cache if redis_client is set by then, then calls
\* save_statistics_mongo, which writes it to MongoDB if mongo_db is set by
\* then, then schedules the display of the computed result, written or not;
\* a thread in which a call raised schedules the error status and no
\* display.
C27_CacheProtocol ==
  []ProtocolLogs
    /\ [][ProtocolReads /\ ProtocolWrites /\ ProtocolSaves /\ ProtocolShows]_vars

\* one request computed, cached and saved and its result displayed, and a
\* later request for the same unit served from the cache
C27_Witness ==
  /\ Len(gui.th) = 2
  /\ gui.th[1].log = MissSteps
  /\ gui.th[2].log = HitSteps
  /\ gui.th[1].unit = gui.th[2].unit
  /\ gui.th[1].unit \in db.saved
  /\ gui.queue = <<>>
  /\ gui.shown = calculate_statistics(gui.th[2].unit)

\* every thread has returned and every scheduled callback has run
AllShown ==
  /\ gui.th # <<>>
  /\ \A r \in 1..Len(gui.th) : gui.th[r].pc = "done"
  /\ gui.queue = <<>>

\* C28: when every thread has finished and every callback has run, the
\* results shown are those of the request issued last, if that request
\* produced results.
C28_LastRequestShown ==
  (AllShown /\ ~Raised27(gui.th[Len(gui.th)])) =>
    gui.shown = calculate_statistics(gui.th[Len(gui.th)].unit)


-----------------------------------------------------------------------------
(* db_connection: the module globals mongo_client, mongo_db, redis_client, *)
(* the connect and close functions and the operations guarded by           *)
(* "is None".  Whether a server answers is given by the environment.       *)

MongoOps ==
  {"save_meteo_data_mongo", "get_meteo_data_mongo", "get_wojewodztwa_mongo",
   "get_powiaty_mongo", "save_admin_unit_mongo", "get_stations_by_admin_mongo",
   "save_station_mongo", "get_statistics_mongo", "save_statistics_mongo"}

RedisOps ==
  {"cache_set", "cache_get", "cache_delete", "increment_query_counter",
   "get_query_counter"}

\* the value an operation returns from its "is None" guard
neutral(op) ==
  CASE op \in {"save_meteo_data_mongo", "save_admin_unit_mongo",
               "save_station_mongo", "save_statistics_mongo",
               "cache_set", "cache_delete"} -> "False"
    [] op \in {"get_meteo_data_mongo", "get_wojewodztwa_mongo",
               "get_powiaty_mongo", "get_stations_by_admin_mongo"} -> "[]"
    [] op \in {"get_statistics_mongo", "cache_get"} -> "None"
    [] op \in {"increment_query_counter", "get_query_counter"} -> "0"

\* the outcomes of an operation: the neutral value from the guard, a value
\* from the store, or the exception of the driver when the server does not
\* answer (the MongoClient mongo_db belongs to, once closed, raises or
\* reconnects, by driver version)
call(d, op) ==
  IF op \in MongoOps
    THEN IF d.mongo_db = "None" THEN {neutral(op)}
         ELSE IF ~d.mongo_up THEN {"raised"}
         ELSE IF d.db_closed THEN {"from store", "raised"}
         ELSE {"from store"}
    ELSE IF d.redis_client = "None" THEN {neutral(op)}
         ELSE IF d.redis_up THEN {"from store"} ELSE {"raised"}

\* connect_mongodb(), line 26: mongo_client = MongoClient(...), a new, open
\* client; mongo_db, if set, is the database of the client before
mongo_client_new(d) ==
  [d EXCEPT !.mongo_client = "client", !.client_closed = FALSE,
            !.db_current = FALSE]

\* connect_mongodb(), lines 27-33, on the client mongo_client names now:
\* server_info() answers and mongo_db is set to its database (TRUE), or it
\* raises and mongo_db stays (FALSE); a client closed meanwhile raises or
\* reconnects, by driver version
connect_mongodb(d) ==
  (IF d.mongo_up
     THEN {<<[d EXCEPT !.mongo_db = "db", !.db_current = TRUE,
                       !.db_closed = d.client_closed], TRUE>>}
     ELSE {})
    \cup (IF ~d.mongo_up \/ d.client_closed THEN {<<d, FALSE>>} ELSE {})

\* connect_redis(), line 39: redis_client = Redis(...)
redis_client_new(d) == [d EXCEPT !.redis_client = "client"]

\* connect_redis(), lines 40-45: ping() answers (TRUE) or raises (FALSE);
\* redis_client stays
connect_redis(d) == <<[d EXCEPT !.pinged = @ \/ d.redis_up], d.redis_up>>

\* close_connections(): the clients the globals name are closed, the
\* globals stay
close_connections(d) ==
  IF d.mongo_client = "None" THEN d
  ELSE [d EXCEPT !.client_closed = TRUE, !.db_closed = @ \/ d.db_current]

NoCall == [op |-> "none", value |-> "none", established |-> FALSE]

MaxConnects == 2              \* threads started by connect_databases

InitDb ==
  /\ impl = "app"
  /\ db \in [mongo_client : {"None"}, mongo_db : {"None"}, redis_client : {"None"},
             mongo_up : BOOLEAN, redis_up : BOOLEAN,
             client_closed : {FALSE}, db_closed : {FALSE}, db_current : {FALSE},
             pinged : {FALSE}, th : {<<>>}, ret : {NoCall}]
  /\ frames = <<>> /\ imp = <<>> /\ redis = <<>> /\ gui = <<>>
  /\ series = <<>> /\ tm = NoTm /\ files = <<>>
  /\ changes = NoChanges /\ workers = <<>>
  /\ eff = <<>> /\ cstatus = "idle" /\ cache = EmptyCache
  /\ sunCalls = NoCalls /\ last = <<>> /\ exc = NoExc
  /\ RunIdle
  /\ AggIdle

DbFrame ==
  UNCHANGED <<clsVars, runVars, aggVars, series, tm, files, changes, workers,
              frames, imp, redis, gui>>

\* the thread t of a connect_all() is at pc
At(t, pc) == t <= Len(db.th) /\ db.th[t].pc = pc

\* MeteoApp.connect_databases: a thread that runs db.connect_all() is
\* started, at start-up and by every click on the reconnect button
ConnectAll ==
  /\ Len(db.th) < MaxConnects
  /\ db' = [db EXCEPT !.th = Append(@, [pc |-> "mongo_client",
                                        mongo_ok |-> FALSE, redis_ok |-> FALSE])]
  /\ DbFrame

\* connect_mongodb() of thread t creates its client
ConnectMongoClient(t) ==
  /\ At(t, "mongo_client")
  /\ db' = [mongo_client_new(db) EXCEPT !.th[t].pc = "server_info"]
  /\ DbFrame

\* mongo_ok = connect_mongodb() of thread t: the reply of server_info()
ConnectMongodb(t) ==
  /\ At(t, "server_info")
  /\ \E r \in connect_mongodb(db) :
       db' = [r[1] EXCEPT !.th[t].pc = "redis_client", !.th[t].mongo_ok = r[2]]
  /\ DbFrame

\* connect_redis() of thread t creates its client
ConnectRedisClient(t) ==
  /\ At(t, "redis_client")
  /\ db' = [redis_client_new(db) EXCEPT !.th[t].pc = "ping"]
  /\ DbFrame

\* redis_ok = connect_redis() of thread t: the reply of ping(); connect_all
\* returns
ConnectRedis(t) ==
  /\ At(t, "ping")
  /\ LET r == connect_redis(db)
     IN  db' = [r[1] EXCEPT !.th[t].pc = "returned", !.th[t].redis_ok = r[2]]
  /\ DbFrame

\* close_connections(), from the main thread at any point of the threads
CloseConnections ==
  /\ db' = close_connections(db)
  /\ DbFrame

\* an operation called from any thread at any point; its connection is
\* established when a connect has set mongo_db, respectively when a ping of
\* connect_redis has answered
CallOp ==
  /\ \E op \in MongoOps \cup RedisOps : \E v \in call(db, op) :
       db' = [db EXCEPT !.ret =
                [op |-> op, value |-> v,
                 established |-> IF op \in MongoOps THEN db.mongo_db # "None"
                                 ELSE db.pinged]]
  /\ DbFrame

NextDb ==
  \/ ConnectAll
  \/ \E t \in 1..MaxConnects : ConnectMongoClient(t)
  \/ \E t \in 1..MaxConnects : ConnectMongodb(t)
  \/ \E t \in 1..MaxConnects : ConnectRedisClient(t)
  \/ \E t \in 1..MaxConnects : ConnectRedis(t)
  \/ CloseConnections
  \/ CallOp

SpecDb == InitDb /\ [][NextDb]_vars

\* C29: an operation called while the connection to its store has not been
\* established returns its neutral value and does not raise: False for
\* save, set and delete, [] for the list queries, None for the lookups, 0
\* for the counters; before, during and after connect_all and
\* close_connections.
C29_NeutralWhenNotConnected ==
  (db.ret.op # "none" /\ ~db.ret.established) => db.ret.value = neutral(db.ret.op)


-----------------------------------------------------------------------------
(* import_meteo_to_redis: the csv files are read in chunks; the accepted   *)
(* rows of a chunk are queued on a pipeline that is executed every         *)
(* BATCH_SIZE rows and at the end of the chunk.  The sizes are scaled down: *)
(* the source has BATCH_SIZE = 10000 and chunksize = 50000.                *)

BATCH_SIZE == 2               \* queued writes that trigger pipe.execute()
ChunkSize  == 3               \* rows of a chunk of pd.read_csv
MaxImpRows == 4               \* rows of a csv file
ImpFiles   == {1, 2}          \* the csv files found by glob, in order

\* a csv row: kept by the filters of the chunk ("ok"), dropped by the
\* parameter filter or by the value filter, each followed by "if df.empty:
\* continue" ("val"), or dropped by the timestamp filter, which is not ("ts")
ImpRows == {"ok", "val", "ts"}

\* df[df["ParametrSH"].isin(PARAMETERS.keys())], then
\* pd.to_numeric(errors="coerce") and dropna(subset=["Value"])
numeric(file, lo, hi) == {k \in lo..hi : k <= Len(file) /\ file[k] # "val"}

\* ... pd.to_datetime(errors="coerce"); dropna(subset=["Timestamp"]): the
\* rows of a chunk left by the three filters
accepted(file, lo, hi) == {k \in numeric(file, lo, hi) : file[k] # "ts"}

\* the importer at the start of a file: file_records = 0; pipe and
\* batch_count are locals of the function and keep what they hold
at_file(m, f) ==
  [m EXCEPT !.f = f, !.k = 1, !.todo = {}, !.file_records = 0, !.pc = "chunk"]

\* pipe.execute() with the executed batch not recorded
execute_lost(m) == [m EXCEPT !.pipe = {}]

\* pipe.execute(): the queued writes are sent as one batch and the queue
\* of the pipeline is empty again
pipe_execute(m) ==
  [m EXCEPT !.batches = Append(@, [f |-> m.f, rows |-> m.pipe]), !.pipe = {}]

\* a full batch: pipe.execute(); pipe = redis_client.pipeline();
\* batch_count = 0
execute(m) == [pipe_execute(m) EXCEPT !.batch_count = 0]

\* pipe.execute() raised, its queue dropped; except Exception: the file is
\* given up, its count is not added
file_failed(m) ==
  [m EXCEPT !.failed = @ \cup {m.f}, !.todo = {}, !.pipe = {}, !.pc = "next"]

InitImport ==
  /\ impl = "app"
  /\ files \in [ImpFiles -> SeqsUpTo(ImpRows, MaxImpRows) \ {<<>>}]
  /\ imp = [f |-> 1, k |-> 1, todo |-> {}, pipe |-> {}, batch_count |-> 0,
            file_records |-> 0, total_records |-> 0, batches |-> <<>>,
            failed |-> {}, records |-> <<>>, returned |-> -1, pc |-> "chunk"]
  /\ frames = <<>> /\ redis = <<>> /\ gui = <<>> /\ db = <<>>
  /\ series = <<>> /\ tm = NoTm /\ changes = NoChanges /\ workers = <<>>
  /\ ClsIdle
  /\ RunIdle
  /\ AggIdle

ImportFrame ==
  UNCHANGED <<clsVars, runVars, aggVars, series, tm, files, changes, workers,
              frames, redis, gui, db>>

\* for df in chunks: a chunk emptied by the parameter filter or by the
\* value filter is skipped ("continue"); for any other, one emptied by the
\* timestamp filter too, a new pipeline is made and batch_count = 0
ReadChunk ==
  /\ imp.pc = "chunk"
  /\ imp.k <= Len(files[imp.f])
  /\ LET hi == imp.k + ChunkSize - 1
     IN  imp' = IF numeric(files[imp.f], imp.k, hi) = {}
                  THEN [imp EXCEPT !.k = hi + 1]
                  ELSE [imp EXCEPT !.k = hi + 1,
                                   !.todo = accepted(files[imp.f], imp.k, hi),
                                   !.pipe = {}, !.batch_count = 0, !.pc = "rows"]
  /\ ImportFrame

\* one iteration of "for _, row in df.iterrows()": zadd, count, and execute
\* when the batch is full; the execute can raise
QueueRow ==
  /\ imp.pc = "rows" /\ imp.todo # {}
  /\ LET row    == SetMin(imp.todo)
         queued == [imp EXCEPT !.todo = @ \ {row},
                               !.pipe = @ \cup {row},
                               !.batch_count = @ + 1,
                               !.file_records = @ + 1]
     IN  IF queued.batch_count >= BATCH_SIZE
           THEN \/ imp' = execute(queued)
                \/ imp' = file_failed(queued)
           ELSE imp' = queued
  /\ ImportFrame

\* after the loop: "if batch_count > 0: pipe.execute()"; batch_count keeps
\* its value
EndChunk ==
  /\ imp.pc = "rows" /\ imp.todo = {}
  /\ IF imp.batch_count > 0
       THEN \/ imp' = [pipe_execute(imp) EXCEPT !.pc = "chunk"]
            \/ imp' = file_failed(imp)
       ELSE imp' = [imp EXCEPT !.pc = "chunk"]
  /\ ImportFrame

\* the chunks are exhausted: total_records += file_records
EndFile ==
  /\ imp.pc = "chunk"
  /\ imp.k > Len(files[imp.f])
  /\ imp' = [imp EXCEPT !.total_records = @ + imp.file_records,
                        !.records = (imp.f :> imp.file_records) @@ @,
                        !.pc = "next"]
  /\ ImportFrame

\* for csv_file in csv_files: the next file, or return total_records
NextFile ==
  /\ imp.pc = "next"
  /\ IF imp.f + 1 \in ImpFiles
       THEN imp' = at_file(imp, imp.f + 1)
       ELSE imp' = [imp EXCEPT !.returned = imp.total_records, !.pc = "returned"]
  /\ ImportFrame

NextImport ==
  \/ ReadChunk
  \/ QueueRow
  \/ EndChunk
  \/ EndFile
  \/ NextFile

SpecImport == InitImport /\ [][NextImport]_vars

----------------------------------------------------------------------------
(* Claims about the importer (SpecImport) *)

\* the rows of file f written to Redis by the executed batches
Executed(f) ==
  UNION {imp.batches[b].rows : b \in {x \in 1..Len(imp.batches) : imp.batches[x].f = f}}

\* the number of writes of file f that were executed
ExecutedWrites(f) ==
  Sum([b \in 1..Len(imp.batches) |->
         IF imp.batches[b].f = f THEN Cardinality(imp.batches[b].rows) ELSE 0])

\* the files processed to their end without an exception
Processed == DOMAIN imp.records

\* the sum of file_records over the files processed without error
RECURSIVE SumRecords(_)
SumRecords(F) ==
  IF F = {} THEN 0
  ELSE LET f == CHOOSE x \in F : TRUE
       IN  imp.records[f] + SumRecords(F \ {f})

\* C30: a pipeline never holds more than BATCH_SIZE queued writes, as many
\* as batch_count says while the rows of a chunk are queued; no accepted
\* row is in two batches; no write is queued when a chunk starts;
\* for a file processed without error the executed writes are its accepted
\* rows, as many as file_records; the returned total is the sum of
\* file_records over those files.
C30_BatchesCoverAcceptedRows ==
  /\ Cardinality(imp.pipe) <= BATCH_SIZE
  /\ imp.pc = "rows" => imp.batch_count = Cardinality(imp.pipe)
  /\ \A b \in 1..Len(imp.batches) :
       /\ Cardinality(imp.batches[b].rows) <= BATCH_SIZE
       /\ \A c \in 1..Len(imp.batches) :
            (b # c /\ imp.batches[b].f = imp.batches[c].f)
              => imp.batches[b].rows \cap imp.batches[c].rows = {}
  /\ imp.pc = "chunk" => imp.pipe = {}
  /\ \A f \in Processed :
       /\ f \notin imp.failed
       /\ Executed(f) = accepted(files[f], 1, Len(files[f]))
       /\ ExecutedWrites(f) = imp.records[f]
  /\ imp.pc = "returned" => imp.returned = SumRecords(Processed)

\* the import has returned; one file was processed with a full batch and a
\* rest and is counted, the other failed after a batch had been executed
\* and is not counted
C30_Witness ==
  /\ imp.pc = "returned"
  /\ imp.returned >= 3
  /\ \E f \in Processed : \E b, c \in 1..Len(imp.batches) :
       /\ imp.batches[b].f = f /\ imp.batches[c].f = f
       /\ Cardinality(imp.batches[b].rows) = BATCH_SIZE
       /\ Cardinality(imp.batches[c].rows) < BATCH_SIZE
  /\ \E f \in imp.failed : Executed(f) # {}

=============================================================================
